---- MODULE Spec2Model ----
(***************************************************************************)
(* Session core of the two-party encrypted communication client (Room      *)
(* component): the signaling state machine over the shared rooms_signaling *)
(* row, the per-session refs it keeps, the peer connections it constructs, *)
(* and the file transfer engine on the data channel.                       *)
(*                                                                         *)
(* Every session (browser tab) is a record of the refs of the Room         *)
(* component.  Handlers that touch only the session are operators from a   *)
(* session record to a session record; the actions wrap them and add the   *)
(* effect on the shared row and on the change-notification queues.         *)
(* Every await of a rendezvous RPC, every timer and every event is a       *)
(* suspension point: the coroutine record keeps the position.              *)
(***************************************************************************)
EXTENDS Integers, Sequences, FiniteSets, TLC

\* ---------------------------------------------------------------- bounds
\* coroutines (joinAndSignal runs and offer callbacks) one session may start
MaxRuns == 3
\* change notifications queued for one session when a heartbeat write is made
MaxInbox == 1
\* tab-visibility events in one behaviour
MaxVisibility == 1
\* duplicated change notifications in one behaviour
MaxDuplicates == 1
\* transport losses in one behaviour
MaxLosses == 1
\* files handed to handleFileUpload in one behaviour
MaxUploads == 2
\* clicks on the exit button in one behaviour
MaxExitClicks == 1
\* calls of handleManualExit of one session awaiting the row delete
MaxExits == 2
\* requests to the store that fail or stay unanswered in one behaviour
MaxRpcErrors == 1
\* changes of the mute button and of the privacy filter in one behaviour
MaxToggles == 1
\* chat messages typed in one behaviour
MaxChats == 1
\* value at which heartbeatFailuresRef stops counting
MaxBeatFailures == 4
\* characters of a room name typed into the form or carried by a link
MaxLen == 2
\* rows inserted in one behaviour by sessions whose refs are not followed
MaxRivals == 3

\* ------------------------------------------------------ program constants
SESSION_EXPIRY == 8000
ROOM_FULL_EXPIRY == 12000
MaxRetryCount == 3
CHUNK_SIZE == 65536
BUFFER_THRESHOLD == 1048576
MAX_FILE_SIZE == 104857600
IvLength == 12

Peers == {"A", "B", "C", "D"}

\* the session that uploads files and the session that receives them
Sender == "A"

Receiver == "B"

\* ages (ms since updated_at) a row is observed at; Tick moves to the next one
AgeValues == {0, 7900, 8000, 8001, 12000, 12001}

\* ------------------------------------------------------------ values
Null == "null"

NoDesc == [type |-> "none", owner |-> Null, n |-> 0]

\* the session description a peer connection produces: createOffer/createAnswer
Description(type, owner, n) == [type |-> type, owner |-> owner, n |-> n]

\* a text column of the row: null, the CLAIMED sentinel, or base64 of a description
NullText == [text |-> "null", d |-> NoDesc]

CLAIMED == [text |-> "CLAIMED", d |-> NoDesc]

\* btoa(JSON.stringify(description))
btoaJSON(description) == [text |-> "b64", d |-> description]

\* JSON.parse(atob(text))
JSONatob(t) == t.d

\* hashPassphrase: base64 of the SHA-256 digest of the passphrase
hashPassphrase(passphrase) == <<"sha256", passphrase>>

\* config.passphrase of the sessions: D was given another one
passphraseOf(p) == IF p = "D" THEN "letmein" ELSE "hunter2"

NoRow ==
    [exists |-> FALSE, initiator_id |-> Null, receiver_id |-> Null,
     offer |-> NullText, answer |-> NullText,
     passphrase_hash |-> hashPassphrase(""), age |-> 0]

VARIABLES
    session,    \* per peer: the refs of its Room component
    row,        \* the rooms_signaling row of the room
    rowGen,     \* number of rows inserted so far (the current row's lifetime)
    inbox,      \* per peer: change notifications not yet delivered
    used,       \* events of the environment consumed so far
    uploads,    \* the calls of handleFileUpload of the sender, in call order
    wire,       \* frames sent on the data channel and not yet received
    receivingRef,   \* receivingRef.current: an index of assemblies, or 0
    assemblies,     \* the ReceivingFileState objects created so far
    decrypting,     \* the calls of handleFileChunkReceive awaiting decryptBuffer
    completed,      \* the files the receiver has shown as completed
    wireBack,       \* frames sent by the receiving session, not yet received
    abortControllerRef  \* abortControllerRef.current of the sender: an upload or 0

signalVars == <<session, row, rowGen, inbox, used>>

fileVars ==
    <<uploads, wire, receivingRef, assemblies, decrypting, completed,
      wireBack, abortControllerRef>>

vars == <<session, row, rowGen, inbox, used,
          uploads, wire, receivingRef, assemblies, decrypting, completed,
          wireBack, abortControllerRef>>

\* ------------------------------------------------------------ coroutines
NoRun ==
    [kind |-> "join", at |-> "done", retryCount |-> 0, pc |-> 0,
     gatherTimeout |-> FALSE, roomData |-> NoRow,
     claim |-> "none", gen |-> 0, outcome |-> "none"]

NewRun(kind, at, retryCount) ==
    [NoRun EXCEPT !.kind = kind, !.at = at, !.retryCount = retryCount]

\* ------------------------------------------------------------ the session
\* no participant with id 'peer' in the participants list; also: no
\* privacy-update received so far
NoParticipant == [present |-> FALSE, audioEnabled |-> FALSE, videoEnabled |-> FALSE]

InitSession ==
    [entered |-> FALSE,
     connectionStatus |-> "idle",
     display |-> "idle",
     mediaError |-> "none",
     rawStream |-> "none",
     role |-> "none",
     isSignaling |-> FALSE,
     processedOffer |-> FALSE,
     processedAnswer |-> FALSE,
     signalChannel |-> 0,
     channels |-> {},
     heartbeat |-> 0,
     intervals |-> {},
     reconnectTimeout |-> FALSE,
     timeouts |-> {},
     exitTimeout |-> FALSE,
     runs |-> <<>>,
     pcs |-> <<>>,
     peersRef |-> 0,
     exitDeleting |-> 0,
     exitReturning |-> 0,
     unmounted |-> FALSE,
     roomName |-> <<>>,
     roomConfig |-> [set |-> FALSE, roomId |-> <<>>],
     isMuted |-> FALSE,
     currentFilter |-> "NONE",
     remote |-> NoParticipant,
     lastPrivacy |-> NoParticipant,
     messages |-> <<>>,
     heartbeatFailures |-> <<>>]

\* connectionStatus is connectionStatusRef.current, display the React state
updateStatus(s, v) == [s EXCEPT !.connectionStatus = v, !.display = v]

scheduleReconnect(s) ==
    IF s.reconnectTimeout THEN s ELSE [s EXCEPT !.reconnectTimeout = TRUE]

\* clearAllTimers: the gathering timeouts and the 500 ms subscribe-wait timeout
\* are in timeoutsRef too: a run waiting for the subscribe timer never resumes,
\* a run waiting for gathering resumes only on the gathering event of a pc
\* whose handlers are still set
clearAllTimers(s) ==
    [s EXCEPT
        !.timeouts = {},
        !.exitTimeout = FALSE,
        !.intervals = {},
        !.runs = [i \in DOMAIN s.runs |->
                    IF s.runs[i].at = "waiting"
                    THEN [s.runs[i] EXCEPT !.at = "hung"]
                    ELSE [s.runs[i] EXCEPT !.gatherTimeout = FALSE]]]

closePeers(s) ==
    [s EXCEPT
        !.pcs = [i \in DOMAIN s.pcs |->
                    IF i = s.peersRef
                    THEN [s.pcs[i] EXCEPT !.handlers = FALSE,
                                          !.connectionState = "closed",
                                          !.signalingState = "closed"]
                    ELSE s.pcs[i]],
        !.peersRef = 0]

\* a cleanup that leaves a reconnect pending when it interrupts a role election
cleanupResourcesRestart(s) ==
    LET s1 == clearAllTimers(closePeers(s))
    IN  [s1 EXCEPT
            !.channels = @ \ {s.signalChannel},
            !.signalChannel = 0,
            !.reconnectTimeout = s.isSignaling,
            !.isSignaling = FALSE,
            !.processedOffer = FALSE,
            !.processedAnswer = FALSE]

cleanupResources(s) ==
    LET s1 == clearAllTimers(closePeers(s))
    IN  [s1 EXCEPT
            !.channels = @ \ {s.signalChannel},
            !.signalChannel = 0,
            !.reconnectTimeout = FALSE,
            !.isSignaling = FALSE,
            !.processedOffer = FALSE,
            !.processedAnswer = FALSE]

\* pc.ontrack: addOrUpdateParticipant of the remote participant, with both
\* flags true, whether the participant is in the list or not
ontrack(s) ==
    [s EXCEPT !.remote = [present |-> TRUE, audioEnabled |-> TRUE,
                          videoEnabled |-> TRUE]]

\* the description d carries tracks: its owner had a stream when it added
\* the tracks of processedStreamRef to its pc
HasTracks(d) == d.owner \in Peers /\ session[d.owner].rawStream # "none"

\* setRemoteDescription(d) fires ontrack for the tracks of d
tracksOf(s, d) == IF HasTracks(d) THEN ontrack(s) ELSE s

NewPC(isOffer, local, remote) ==
    [isOffer |-> isOffer,
     signalingState |-> IF isOffer THEN "have-local-offer" ELSE "stable",
     connectionState |-> "new",
     localDescription |-> local,
     remoteDescription |-> remote,
     applied |-> IF isOffer THEN 0 ELSE 1,
     answerFrom |-> Null,
     handlers |-> TRUE]

\* setupPeerConnection('peer', isOffer) followed by the creation of the local
\* description: createOffer + setLocalDescription for the initiator,
\* setRemoteDescription(offer) + createAnswer + setLocalDescription otherwise
setupPeerConnection(s, p, isOffer, remote) ==
    LET n == Len(s.pcs) + 1
        local == Description(IF isOffer THEN "offer" ELSE "answer", p, n)
    IN  [tracksOf(s, remote) EXCEPT
            !.pcs = Append(@, NewPC(isOffer, local, remote)),
            !.peersRef = n]

\* joinAndSignal up to the subscribe call; the new channel has the run's index
joinAndSignal(s, retryCount) ==
    IF s.isSignaling \/ retryCount > MaxRetryCount
    THEN s
    ELSE [s EXCEPT
                !.isSignaling = TRUE,
                !.intervals = IF s.heartbeat # 0 THEN @ \ {s.heartbeat} ELSE @,
                !.channels = @ \ {s.signalChannel},
                !.processedOffer = FALSE,
                !.processedAnswer = FALSE,
                !.runs = Append(@, NewRun("join", "subscribing", retryCount))]

\* a call of joinAndSignal that starts a run needs room for it
CanJoin(s) == s.isSignaling \/ Len(s.runs) < MaxRuns

\* heartbeatRef.current = addInterval(...)
startHeartbeat(s, id) ==
    [s EXCEPT !.heartbeat = id, !.intervals = @ \cup {id}]

\* -------------------------------------------- the subscription callback
\* an offer branch that takes the offer only in status idle
OfferBranchIdle(s, ev) ==
    /\ ev.offer # NullText
    /\ ev.offer # CLAIMED
    /\ s.role = "receiver"
    /\ s.connectionStatus = "idle"
    /\ ~s.processedOffer

\* an answer branch without the signaling-state test and the processed flag
applyAnswerAlways(s, p, ev) ==
    LET pc == s.pcs[s.peersRef]
    IN  IF s.peersRef # 0
        THEN [tracksOf(s, JSONatob(ev.answer)) EXCEPT
                !.pcs[s.peersRef] =
                    [pc EXCEPT !.signalingState = "stable",
                               !.remoteDescription = JSONatob(ev.answer),
                               !.applied = @ + 1,
                               !.answerFrom = ev.initiator_id]]
        ELSE s

\* the offer branch of the callback applies to this payload in this session
OfferBranch(s, ev) ==
    /\ ev.offer # NullText
    /\ ev.offer # CLAIMED
    /\ s.role = "receiver"
    /\ s.connectionStatus \in {"preparing", "idle"}
    /\ ~s.processedOffer

\* the answer branch: setRemoteDescription(answer) on the pc of peersRef
applyAnswer(s, p, ev) ==
    LET pc == s.pcs[s.peersRef]
    IN  IF /\ s.peersRef # 0
           /\ pc.signalingState \in {"have-local-offer", "stable"}
           /\ ev.initiator_id = p
           /\ pc.signalingState = "have-local-offer"
        THEN [tracksOf(s, JSONatob(ev.answer)) EXCEPT
                !.processedAnswer = TRUE,
                !.pcs[s.peersRef] =
                    [pc EXCEPT !.signalingState = "stable",
                               !.remoteDescription = JSONatob(ev.answer),
                               !.applied = @ + 1,
                               !.answerFrom = ev.initiator_id]]
        ELSE s

\* the callback given to supabase.channel(...).on('postgres_changes', ...)
subscriptionCallback(s, p, ev) ==
    IF ev.eventType = "DELETE"
    THEN IF s.connectionStatus # "connected"
         THEN scheduleReconnect(cleanupResources(s))
         ELSE s
    ELSE IF /\ ev.eventType = "INSERT"
            /\ s.connectionStatus # "connected"
            /\ s.role = "none"
    THEN scheduleReconnect([s EXCEPT !.isSignaling = FALSE])
    ELSE IF OfferBranch(s, ev)
    THEN LET s1 == setupPeerConnection(
                       updateStatus([s EXCEPT !.processedOffer = TRUE],
                                    "preparing"),
                       p, FALSE, JSONatob(ev.offer))
         IN  [s1 EXCEPT !.runs = Append(@,
                 [NewRun("callback", "gathering", 0) EXCEPT
                     !.pc = s1.peersRef, !.gatherTimeout = TRUE])]
    ELSE IF ev.answer # NullText /\ s.role = "initiator" /\ ~s.processedAnswer
    THEN applyAnswer(s, p, ev)
    ELSE s

\* ------------------------------------------------------ row and notifications
Event(type, r) ==
    [eventType |-> type, offer |-> r.offer, answer |-> r.answer,
     initiator_id |-> r.initiator_id, ch |-> 0]

ChannelSeq(S) == SelectSeq([i \in 1..(MaxRuns + 1) |-> i], LAMBDA c : c \in S)

\* one copy of every event for every subscribed channel of session s
Copies(s, evs) ==
    LET cs == ChannelSeq(s.channels)
    IN  [k \in 1..(Len(evs) * Len(cs)) |->
            [evs[((k - 1) \div Len(cs)) + 1] EXCEPT
                !.ch = cs[((k - 1) % Len(cs)) + 1]]]

\* removeChannel: the callback of a removed channel is not called any more
Purge(q, channels) == SelectSeq(q, LAMBDA e : e.ch \in channels)

\* a step of peer p: its session becomes s2, the row r2, and the change events
\* evs of the row are queued for every subscribed channel
Write(p, s2, r2, evs) ==
    /\ session' = [session EXCEPT ![p] = s2]
    /\ row' = r2
    /\ inbox' = [q \in Peers |->
                    Purge(inbox[q] \o Copies(session[q], evs),
                          IF q = p THEN s2.channels ELSE session[q].channels)]

Step(p, s2, r2, evs) == Write(p, s2, r2, evs) /\ UNCHANGED fileVars

Local(p, s2) == Step(p, s2, row, <<>>) /\ UNCHANGED <<rowGen, used>>

\* --------------------------------------------------------------- actions
\* the rejections of getUserMedia for which initMedia falls back
Busy == {"NotReadableError", "TrackStartError", "AbortError"}

\* what the browser answers to one initMedia: the secure-context flag, whether
\* deriveKey resolves, and the outcome of the two getUserMedia calls
MediaEnv ==
    [secure : BOOLEAN, key : BOOLEAN,
     video : {"ok", "NotReadableError", "AbortError", "NotAllowedError"},
     audio : {"ok", "NotReadableError"}]

\* initMedia(false) up to the first await of joinAndSignal
initMedia(s, env) ==
    LET s0 == [s EXCEPT !.entered = TRUE]
        failed == [s0 EXCEPT !.mediaError = env.video]
    IN  IF ~env.secure \/ ~env.key
        THEN [s0 EXCEPT !.display = "security-error"]
        ELSE IF env.video = "ok"
        THEN joinAndSignal([s0 EXCEPT !.rawStream = "av"], 0)
        ELSE IF env.video \in Busy /\ env.audio = "ok"
        THEN joinAndSignal([failed EXCEPT !.rawStream = "audio"], 0)
        ELSE IF env.video \in Busy
        THEN joinAndSignal(failed, 0)
        ELSE [failed EXCEPT !.display = "media-error"]

\* the mount effect: initMedia()
InitMedia(p, env) ==
    /\ ~session[p].entered
    /\ Local(p, initMedia(session[p], env))

\* initMedia -> setupLocalParticipant -> joinAndSignal(), with camera and
\* microphone granted
Enter(p) ==
    InitMedia(p, [secure |-> TRUE, key |-> TRUE, video |-> "ok", audio |-> "ok"])

\* channel.subscribe reports SUBSCRIBED: addTimeout(() => resolve(), 500)
Subscribed(p, i) ==
    LET s == session[p]
    IN  /\ i \in DOMAIN s.runs
        /\ s.runs[i].at = "subscribing"
        /\ Local(p, [s EXCEPT !.channels = @ \cup {i},
                              !.runs[i].at = "waiting"])

\* the 500 ms timer resolves the promise: signalChannelRef is set and the row
\* is read
SubscribeTimer(p, i) ==
    LET s == session[p]
    IN  /\ i \in DOMAIN s.runs
        /\ s.runs[i].at = "waiting"
        /\ Local(p, [s EXCEPT !.signalChannel = i,
                              !.runs[i].at = "fetched",
                              !.runs[i].roomData = row])

\* an expiry test with the session horizon for every reader
ExpiredForAll(r, occupant) == r.age > SESSION_EXPIRY

\* the expiry test of a fully occupied row: now - updatedAt against the
\* horizon of an occupant or of any other reader
Expired(r, occupant) ==
    \/ occupant /\ r.age > SESSION_EXPIRY
    \/ ~occupant /\ r.age > ROOM_FULL_EXPIRY

\* the run's branch on roomData, up to its next await
fetchDone(s, p, i) ==
    LET r == s.runs[i].roomData
        at(a) == [s.runs[i] EXCEPT !.at = a, !.roomData = NoRow]
        finish(s1) == [s1 EXCEPT !.isSignaling = FALSE, !.runs[i] = at("done")]
        occupant == r.initiator_id = p \/ r.receiver_id = p
    IN  IF r.exists /\ r.initiator_id # Null /\ r.receiver_id # Null
        THEN IF Expired(r, occupant)
             THEN [s EXCEPT !.runs[i] = at("deleting")]
             ELSE finish(updateStatus(s, "room-full"))
        ELSE IF ~r.exists
        THEN [updateStatus(s, "preparing") EXCEPT
                !.role = "initiator", !.runs[i] = at("inserting")]
        ELSE IF r.receiver_id = Null
        THEN IF r.passphrase_hash # hashPassphrase(passphraseOf(p))
             THEN finish([s EXCEPT !.exitTimeout = TRUE])
             ELSE LET s1 == [updateStatus(s, "preparing") EXCEPT
                                !.role = "receiver"]
                      s2 == setupPeerConnection(
                                [s1 EXCEPT !.processedOffer = TRUE],
                                p, FALSE, JSONatob(r.offer))
                  IN  IF r.offer = CLAIMED
                      THEN finish(s1)
                      ELSE startHeartbeat(
                               [s2 EXCEPT !.runs[i] =
                                   [at("gathering") EXCEPT
                                       !.pc = s2.peersRef,
                                       !.gatherTimeout = TRUE]], i)
        ELSE startHeartbeat(finish(updateStatus(s, "room-full")), i)

FetchDone(p, i) ==
    LET s == session[p]
    IN  /\ i \in DOMAIN s.runs
        /\ s.runs[i].at = "fetched"
        /\ Local(p, fetchDone(s, p, i))

\* the delete of a stale row completes: the run restarts after 500 ms
DeleteDone(p, i) ==
    LET s == session[p]
    IN  /\ i \in DOMAIN s.runs
        /\ s.runs[i].at = "deleting"
        /\ Step(p, [s EXCEPT !.isSignaling = FALSE,
                             !.timeouts = @ \cup {0},
                             !.runs[i].at = "done"],
                NoRow,
                IF row.exists THEN <<Event("DELETE", NoRow)>> ELSE <<>>)
        /\ UNCHANGED <<rowGen, used>>

\* the insert of the CLAIMED row completes: on a collision the run restarts
\* after 300 ms, otherwise the peer connection and the offer are created and
\* the heartbeat interval is started
InsertDone(p, i) ==
    LET s == session[p]
        s2 == setupPeerConnection(s, p, TRUE, NoDesc)
    IN  /\ i \in DOMAIN s.runs
        /\ s.runs[i].at = "inserting"
        /\ IF row.exists
           THEN /\ Step(p, [s EXCEPT
                               !.isSignaling = FALSE,
                               !.timeouts = @ \cup {s.runs[i].retryCount + 1},
                               !.runs[i].at = "done"],
                        row, <<>>)
                /\ UNCHANGED rowGen
           ELSE LET r2 == [NoRow EXCEPT
                              !.exists = TRUE,
                              !.initiator_id = p,
                              !.offer = CLAIMED,
                              !.passphrase_hash =
                                  hashPassphrase(passphraseOf(p))]
                IN  /\ Step(p, startHeartbeat(
                                   [s2 EXCEPT !.runs[i].at = "gathering",
                                              !.runs[i].pc = s2.peersRef,
                                              !.runs[i].gatherTimeout = TRUE],
                                   i),
                            r2, <<Event("INSERT", r2)>>)
                    /\ rowGen' = rowGen + 1
        /\ UNCHANGED used

\* gathering completes or the 4 s gathering timeout fires: sendOffer or
\* sendAnswer up to the completion of its conditional or unconditional update
GatherDone(p, i) ==
    LET s == session[p]
        run == s.runs[i]
        pc == s.pcs[run.pc]
        sdp == btoaJSON(pc.localDescription)
        offerRow == [row EXCEPT !.offer = sdp, !.age = 0]
        answerRow == [row EXCEPT !.receiver_id = p, !.answer = sdp, !.age = 0]
        matched == row.exists /\ row.receiver_id = Null
    IN  /\ i \in DOMAIN s.runs
        /\ run.at = "gathering"
        /\ run.gatherTimeout \/ pc.handlers
        /\ IF pc.isOffer
           THEN Step(p, [s EXCEPT !.runs[i].at = "posted",
                                  !.runs[i].gatherTimeout = FALSE],
                     IF row.exists THEN offerRow ELSE row,
                     IF row.exists THEN <<Event("UPDATE", offerRow)>> ELSE <<>>)
           ELSE Step(p, [s EXCEPT !.runs[i].at = "claimed",
                                  !.runs[i].gatherTimeout = FALSE,
                                  !.runs[i].gen = rowGen,
                                  !.runs[i].claim =
                                      IF matched THEN "matched" ELSE "unmatched"],
                     IF matched THEN answerRow ELSE row,
                     IF matched THEN <<Event("UPDATE", answerRow)>> ELSE <<>>)
        /\ UNCHANGED <<rowGen, used>>

\* sendOffer after its await
OfferAck(p, i) ==
    LET s == session[p]
    IN  /\ i \in DOMAIN s.runs
        /\ s.runs[i].at = "posted"
        /\ Local(p, [updateStatus(s, "ready") EXCEPT
                        !.isSignaling = FALSE,
                        !.runs[i].at = "done",
                        !.runs[i].outcome = "ready"])

\* sendAnswer after the await of the conditional update
ClaimAck(p, i) ==
    LET s == session[p]
    IN  /\ i \in DOMAIN s.runs
        /\ s.runs[i].at = "claimed"
        /\ IF s.runs[i].claim = "matched"
           THEN Local(p, [updateStatus(s, "ready") EXCEPT
                             !.isSignaling = FALSE,
                             !.runs[i].at = "done",
                             !.runs[i].outcome = "ready"])
           ELSE Local(p, [s EXCEPT !.runs[i].at = "rereading"])

\* sendAnswer after the re-read that follows an unmatched update
RereadDone(p, i) ==
    LET s == session[p]
        mine == row.exists /\ row.receiver_id = p
        v == IF mine THEN "ready" ELSE "room-full"
    IN  /\ i \in DOMAIN s.runs
        /\ s.runs[i].at = "rereading"
        /\ Local(p, [updateStatus(s, v) EXCEPT
                        !.isSignaling = FALSE,
                        !.runs[i].at = "done",
                        !.runs[i].outcome = v])

\* ------------------------------------------------- failing store requests
\* a handshake request of run i of p may still fail
MayFail(p, i) ==
    /\ i \in DOMAIN session[p].runs
    /\ Cardinality(used.errors) < MaxRpcErrors

\* the request of run i of p has failed
Failed(p, i) == used' = [used EXCEPT !.errors = @ \cup {<<p, i>>}]

\* the row read answers { data: null, error }: roomData is null
FetchError(p, i) ==
    LET s == session[p]
    IN  /\ MayFail(p, i)
        /\ s.runs[i].at = "waiting"
        /\ Step(p, [s EXCEPT !.signalChannel = i,
                             !.runs[i].at = "fetched",
                             !.runs[i].roomData = NoRow],
                row, <<>>)
        /\ Failed(p, i)
        /\ UNCHANGED rowGen

\* the insert answers { error } for a reason other than a collision
InsertError(p, i) ==
    LET s == session[p]
    IN  /\ MayFail(p, i)
        /\ s.runs[i].at = "inserting"
        /\ Step(p, [s EXCEPT
                       !.isSignaling = FALSE,
                       !.timeouts = @ \cup {s.runs[i].retryCount + 1},
                       !.runs[i].at = "done"],
                row, <<>>)
        /\ Failed(p, i)
        /\ UNCHANGED rowGen

\* the update of sendOffer or sendAnswer answers { error }: the row is left
\* as it is; sendOffer does not look at the answer, sendAnswer takes the
\* re-read branch
UpdateError(p, i) ==
    LET s == session[p]
        run == s.runs[i]
        pc == s.pcs[run.pc]
    IN  /\ MayFail(p, i)
        /\ run.at = "gathering"
        /\ run.gatherTimeout \/ pc.handlers
        /\ Step(p, [s EXCEPT
                       !.runs[i].at = IF pc.isOffer THEN "posted" ELSE "claimed",
                       !.runs[i].gatherTimeout = FALSE,
                       !.runs[i].gen = IF pc.isOffer THEN @ ELSE rowGen,
                       !.runs[i].claim = IF pc.isOffer THEN @ ELSE "unmatched"],
                row, <<>>)
        /\ Failed(p, i)
        /\ UNCHANGED rowGen

\* the request run i of p awaits is never answered: HANDSHAKE_TIMEOUT is read
\* nowhere, no timer runs beside the await, and the run stays suspended
NeverAnswered(p, i) ==
    LET s == session[p]
    IN  /\ MayFail(p, i)
        /\ s.runs[i].at \in {"fetched", "inserting", "deleting", "posted",
                             "claimed", "rereading"}
        /\ Step(p, [s EXCEPT !.runs[i].at = "lost"], row, <<>>)
        /\ Failed(p, i)
        /\ UNCHANGED rowGen

\* channel.subscribe reports CHANNEL_ERROR, TIMED_OUT or CLOSED, or nothing:
\* the callback resolves the promise only for SUBSCRIBED, so the run stays
\* suspended at the await of the promise
SubscribeError(p, i) ==
    LET s == session[p]
    IN  /\ MayFail(p, i)
        /\ s.runs[i].at = "subscribing"
        /\ Step(p, [s EXCEPT !.runs[i].at = "hung"], row, <<>>)
        /\ Failed(p, i)
        /\ UNCHANGED rowGen

\* the refs of the file transfer that cleanupResources touches
fileRefs ==
    [receivingRef |-> receivingRef, uploads |-> uploads,
     abortControllerRef |-> abortControllerRef]

\* cleanupResources of session p on these refs: receivingRef.current = null;
\* abortControllerRef.current.abort(); abortControllerRef.current = null
resetFileRefs(p, f) ==
    [receivingRef |-> IF p = Receiver THEN 0 ELSE f.receivingRef,
     uploads |-> IF p = Sender /\ f.abortControllerRef # 0
                 THEN [f.uploads EXCEPT ![f.abortControllerRef].aborted = TRUE]
                 ELSE f.uploads,
     abortControllerRef |-> IF p = Sender THEN 0 ELSE f.abortControllerRef]

\* the file-transfer variables after a step of session p that runs
\* cleanupResources when cleans holds
abortAndReset(p, cleans) ==
    LET f == IF cleans THEN resetFileRefs(p, fileRefs) ELSE fileRefs
    IN  /\ receivingRef' = f.receivingRef
        /\ uploads' = f.uploads
        /\ abortControllerRef' = f.abortControllerRef
        /\ UNCHANGED <<wire, wireBack, assemblies, decrypting, completed>>

\* the callback runs cleanupResources for this payload
Cleans(s, ev) == ev.eventType = "DELETE" /\ s.connectionStatus # "connected"

\* the file side of the callback
cleanupFiles(p, s, ev) == abortAndReset(p, Cleans(s, ev))

\* a change notification is delivered to the callback of its channel
Deliver(p) ==
    LET s == session[p]
        ev == Head(inbox[p])
        s2 == subscriptionCallback(s, p, ev)
    IN  /\ inbox[p] # <<>>
        /\ OfferBranch(s, ev) => Len(s.runs) < MaxRuns
        /\ session' = [session EXCEPT ![p] = s2]
        /\ inbox' = [inbox EXCEPT ![p] = Purge(Tail(@), s2.channels)]
        /\ UNCHANGED <<row, rowGen, used>>
        /\ cleanupFiles(p, s, ev)

\* the bus delivers the same change notification once more
DeliverDuplicate(p) ==
    LET s == session[p]
        ev == Head(inbox[p])
        s2 == subscriptionCallback(s, p, ev)
    IN  /\ inbox[p] # <<>>
        /\ used.duplicates < MaxDuplicates
        /\ OfferBranch(s, ev) => Len(s.runs) < MaxRuns
        /\ session' = [session EXCEPT ![p] = s2]
        /\ inbox' = [inbox EXCEPT ![p] = Purge(@, s2.channels)]
        /\ used' = [used EXCEPT !.duplicates = @ + 1]
        /\ UNCHANGED <<row, rowGen>>
        /\ cleanupFiles(p, s, ev)

\* interval i of session s can tick: it was started (5000 ms) after the
\* gathering timeout of its run (4000 ms), which has fired or was cleared
Ticking(s, i) ==
    /\ i \in s.intervals
    /\ ~(s.runs[i].at = "gathering" /\ s.runs[i].gatherTimeout)

\* one tick of a heartbeat interval: the write of the role's id column
Heartbeat(p) ==
    LET s == session[p]
        r2 == IF s.role = "initiator"
              THEN [row EXCEPT !.initiator_id = p, !.age = 0]
              ELSE [row EXCEPT !.receiver_id = p, !.age = 0]
    IN  /\ \E i \in DOMAIN s.runs : Ticking(s, i)
        /\ s.role # "none"
        /\ row.exists
        /\ \A q \in Peers : Len(inbox[q]) < MaxInbox
        /\ Step(p, [s EXCEPT !.heartbeatFailures = <<>>], r2,
                <<Event("UPDATE", r2)>>)
        /\ UNCHANGED <<rowGen, used>>

\* the callback of the heartbeat interval when its write answers { error }:
\* heartbeatFailuresRef, kept here as the list of the statuses at which the
\* counted failures were seen, grows by one; at three or more with the
\* status connected it is reset and joinAndSignal is called
heartbeatError(s) ==
    LET f == Append(s.heartbeatFailures, s.connectionStatus)
    IN  IF Len(f) >= 3 /\ s.connectionStatus = "connected"
        THEN joinAndSignal([s EXCEPT !.heartbeatFailures = <<>>], 0)
        ELSE [s EXCEPT !.heartbeatFailures = f]

\* one tick of a heartbeat interval whose write fails
HeartbeatError(p) ==
    LET s == session[p]
    IN  /\ \E i \in DOMAIN s.runs : Ticking(s, i)
        /\ s.role # "none"
        /\ Len(s.heartbeatFailures) < MaxBeatFailures
        /\ CanJoin(s)
        /\ Local(p, heartbeatError(s))

\* one tick of a heartbeat interval whose write throws: the catch counts it
HeartbeatThrow(p) ==
    LET s == session[p]
    IN  /\ \E i \in DOMAIN s.runs : Ticking(s, i)
        /\ s.role # "none"
        /\ Len(s.heartbeatFailures) < MaxBeatFailures
        /\ Local(p, [s EXCEPT !.heartbeatFailures =
                            Append(@, s.connectionStatus)])

\* the timer of scheduleReconnect fires
ReconnectFire(p) ==
    LET s == session[p]
    IN  /\ s.reconnectTimeout
        /\ CanJoin(s)
        /\ Local(p, joinAndSignal([s EXCEPT !.reconnectTimeout = FALSE], 0))

\* a timer addTimeout(() => joinAndSignal(n), ...) fires
RetryFire(p, n) ==
    LET s == session[p]
    IN  /\ n \in s.timeouts
        /\ CanJoin(s)
        /\ Local(p, joinAndSignal([s EXCEPT !.timeouts = @ \ {n}], n))

\* handleVisibilityChange, the document becoming visible
VisibilityChange(p) ==
    LET s == session[p]
    IN  /\ s.entered
        /\ ~s.unmounted
        /\ used.visibility < MaxVisibility
        /\ s.connectionStatus # "connected"
        /\ s.role # "none"
        /\ ~s.reconnectTimeout
        /\ Step(p, scheduleReconnect(s), row, <<>>)
        /\ used' = [used EXCEPT !.visibility = @ + 1]
        /\ UNCHANGED rowGen

\* a peer connection that can still carry the transport
Alive(pc) == pc.connectionState \in {"new", "connected"}

\* pc i of p and the pc that produced its remote description hold each
\* other's descriptions
Paired(p, i) ==
    LET pc == session[p].pcs[i]
        q == pc.remoteDescription.owner
        j == pc.remoteDescription.n
    IN  /\ q \in Peers
        /\ j \in DOMAIN session[q].pcs
        /\ session[q].pcs[j].remoteDescription = pc.localDescription

RemoteAlive(p, i) ==
    LET pc == session[p].pcs[i]
    IN  Alive(session[pc.remoteDescription.owner].pcs[pc.remoteDescription.n])

\* pc.onconnectionstatechange
onconnectionstatechange(s, i) ==
    IF ~s.pcs[i].handlers THEN s
    ELSE IF s.pcs[i].connectionState = "connected"
    THEN updateStatus(s, "connected")
    ELSE IF s.pcs[i].connectionState \in {"closed", "failed"}
    THEN scheduleReconnect(s)
    ELSE s

\* the transport of a negotiated pair comes up on one side
TransportConnected(p, i) ==
    LET s == session[p]
    IN  /\ i \in DOMAIN s.pcs
        /\ s.pcs[i].connectionState = "new"
        /\ Paired(p, i)
        /\ RemoteAlive(p, i)
        /\ Local(p, onconnectionstatechange(
                        [s EXCEPT !.pcs[i].connectionState = "connected"], i))

\* the transport of a connected pc is lost: the network fails, or the other
\* side is closed or has failed
TransportFailed(p, i) ==
    LET s == session[p]
    IN  /\ i \in DOMAIN s.pcs
        /\ s.pcs[i].connectionState = "connected"
        /\ used.losses < MaxLosses \/ ~RemoteAlive(p, i)
        /\ Step(p, onconnectionstatechange(
                       [s EXCEPT !.pcs[i].connectionState = "failed"], i),
                row, <<>>)
        /\ used' = IF RemoteAlive(p, i)
                   THEN [used EXCEPT !.losses = @ + 1]
                   ELSE used
        /\ UNCHANGED rowGen

\* time passes: the row gets older; a live heartbeat interval (5000 ms)
\* refreshes updated_at before the row reaches an expiry horizon
Tick ==
    /\ row.exists
    /\ \A p \in Peers :
        session[p].role = "none" \/ session[p].intervals = {}
    /\ \E a \in AgeValues :
        /\ a > row.age
        /\ \A b \in AgeValues : b > row.age => a <= b
        /\ row' = [row EXCEPT !.age = a]
    /\ UNCHANGED <<session, rowGen, inbox, used>>
    /\ UNCHANGED fileVars

\* ---------------------------------------------------------- file transfer
\* config.roomId of every session
roomId == "ROOM"

\* deriveKey: PBKDF2 of the passphrase with the room id as salt
deriveKey(passphrase, salt) == <<"pbkdf2", passphrase, salt>>

\* encryptionKeyRef.current of session p
encryptionKeyRef(p) == deriveKey(passphraseOf(p), roomId)

\* file.size of the files a user picks
FileSizes == {CHUNK_SIZE, CHUNK_SIZE + 1, 2 * CHUNK_SIZE + 1}

\* buf.slice(off, end) of the file with identifier id: the bytes off..end-1,
\* clipped to the size of the file; files differ in every byte
Slice(id, size, off, end) ==
    [id |-> id, off |-> off,
     byteLength |-> (IF end < size THEN end ELSE size) - off]

\* crypto.subtle.encrypt under AES-GCM: decrypts only with the same key and iv
encryptBuffer(key, buffer, iv) ==
    [iv |-> iv, data |-> [key |-> key, iv |-> iv, plain |-> buffer]]

OperationError == [id |-> 0, off |-> 0, byteLength |-> 0 - 1]

\* a decryption that does not authenticate: it returns the bytes whatever the
\* key
decryptBufferUnchecked(key, buffer, iv) == buffer.plain

\* crypto.subtle.decrypt under AES-GCM
decryptBuffer(key, buffer, iv) ==
    IF buffer.key = key /\ buffer.iv = iv THEN buffer.plain ELSE OperationError

\* dc.readyState === 'open' for the data channel of session p
Open(p) ==
    /\ session[p].peersRef # 0
    /\ session[p].pcs[session[p].peersRef].connectionState = "connected"

\* dc.onmessage of session p is set and its channel is open
Listening(p) == Open(p) /\ session[p].pcs[session[p].peersRef].handlers

\* the data channel between the two sessions is open on both sides
DCOpen == Open(Sender) /\ Open(Receiver)

RECURSIVE bufferedAmount(_)
\* dc.bufferedAmount: the bytes of the frames queued on the channel
bufferedAmount(w) ==
    IF w = <<>> THEN 0
    ELSE (IF Head(w).type = "binary"
          THEN IvLength + Head(w).data.plain.byteLength
          ELSE 0) + bufferedAmount(Tail(w))

\* handleManualExit up to the await of the row delete: session-terminate is
\* sent on the open data channel of session p
handleManualExit(p, w, wb) ==
    LET term == [type |-> "session-terminate"]
    IN  /\ session' = [session EXCEPT ![p].exitDeleting = @ + 1]
        /\ wire' = IF p = Sender /\ Open(p) THEN Append(w, term) ELSE w
        /\ wireBack' = IF p = Receiver /\ Open(p)
                       THEN Append(wb, term) ELSE wb

\* the user presses the exit button
ManualExit(p) ==
    /\ session[p].entered
    /\ ~session[p].unmounted
    /\ used.exits < MaxExitClicks
    /\ session[p].exitDeleting + session[p].exitReturning < MaxExits
    /\ handleManualExit(p, wire, wireBack)
    /\ used' = [used EXCEPT !.exits = @ + 1]
    /\ UNCHANGED <<row, rowGen, inbox>>
    /\ UNCHANGED <<uploads, receivingRef, assemblies, decrypting, completed,
                   abortControllerRef>>

\* dc.onmessage of session p for a session-terminate frame
ReceiveTerminate(p) ==
    LET w == IF p = Receiver THEN wire ELSE wireBack
    IN  /\ p \in {Sender, Receiver}
        /\ w # <<>>
        /\ Head(w).type = "session-terminate"
        /\ Listening(p)
        /\ session[p].exitDeleting + session[p].exitReturning < MaxExits
        /\ handleManualExit(p,
                            IF p = Receiver THEN Tail(wire) ELSE wire,
                            IF p = Sender THEN Tail(wireBack) ELSE wireBack)
        /\ UNCHANGED <<row, rowGen, inbox, used>>
        /\ UNCHANGED <<uploads, receivingRef, assemblies, decrypting,
                       completed, abortControllerRef>>

\* the delete of handleManualExit is carried out on the table
ExitDelete(p) ==
    LET s == session[p]
    IN  /\ s.exitDeleting > 0
        /\ Step(p, [s EXCEPT !.exitDeleting = @ - 1, !.exitReturning = @ + 1],
                NoRow,
                IF row.exists THEN <<Event("DELETE", NoRow)>> ELSE <<>>)
        /\ UNCHANGED <<rowGen, used>>

\* handleManualExit after its await: cleanupResources(), then onExit(), which
\* unmounts the component and runs cleanupResources once more
ExitDone(p) ==
    LET s == session[p]
        s2 == cleanupResources(cleanupResources(s))
    IN  /\ s.exitReturning > 0
        /\ Write(p, [s2 EXCEPT !.exitReturning = @ - 1, !.unmounted = TRUE],
                 row, <<>>)
        /\ abortAndReset(p, TRUE)
        /\ UNCHANGED <<rowGen, used>>

\* the timer addTimeout(onExit, 2000) fires: the component unmounts and its
\* effect cleanup runs cleanupResources
ExitTimerFire(p) ==
    LET s == session[p]
    IN  /\ s.exitTimeout
        /\ Write(p, [cleanupResources(s) EXCEPT !.unmounted = TRUE], row, <<>>)
        /\ abortAndReset(p, TRUE)
        /\ UNCHANGED <<rowGen, used>>

\* the privacy-update payload of a session with these settings
privacyUpdate(isMuted, filter) ==
    [type |-> "privacy-update", audioEnabled |-> ~isMuted,
     videoEnabled |-> (filter = "NONE")]

\* the frames a change of isMuted or currentFilter of session s sends on its
\* open channel: the mute effect sends its own payload when the status ref is
\* connected, and the effect on [currentFilter, isMuted, connectionStatus]
\* calls syncPrivacy when the status shown is connected
privacyFrames(p, s, muteChanged) ==
    LET f == privacyUpdate(s.isMuted, s.currentFilter)
    IN  IF ~Open(p) THEN <<>>
        ELSE (IF muteChanged /\ s.connectionStatus = "connected"
              THEN <<f>> ELSE <<>>)
             \o (IF s.display = "connected" THEN <<f>> ELSE <<>>)

\* the user of session p presses the mute button or picks another filter
SetPrivacy(p, isMuted, filter) ==
    LET s == session[p]
        s2 == [s EXCEPT !.isMuted = isMuted, !.currentFilter = filter]
        out == privacyFrames(p, s2, isMuted # s.isMuted)
    IN  /\ p \in {Sender, Receiver}
        /\ s.entered /\ ~s.unmounted
        /\ used.toggles < MaxToggles
        /\ <<isMuted, filter>> # <<s.isMuted, s.currentFilter>>
        /\ session' = [session EXCEPT ![p] = s2]
        /\ wire' = IF p = Sender THEN wire \o out ELSE wire
        /\ wireBack' = IF p = Receiver THEN wireBack \o out ELSE wireBack
        /\ used' = [used EXCEPT !.toggles = @ + 1]
        /\ UNCHANGED <<row, rowGen, inbox>>
        /\ UNCHANGED <<uploads, receivingRef, assemblies, decrypting, completed,
                       abortControllerRef>>

\* dc.onmessage of session p for a privacy-update frame: the flags of the
\* participant with the channel's id are set, if that participant is listed
ReceivePrivacy(p) ==
    LET w == IF p = Receiver THEN wire ELSE wireBack
        e == Head(w)
        s == session[p]
        flags == [present |-> TRUE, audioEnabled |-> e.audioEnabled,
                  videoEnabled |-> e.videoEnabled]
    IN  /\ p \in {Sender, Receiver}
        /\ w # <<>>
        /\ e.type = "privacy-update"
        /\ Listening(p)
        /\ session' = [session EXCEPT ![p] =
                [s EXCEPT !.remote = IF @.present THEN flags ELSE @,
                          !.lastPrivacy = flags]]
        /\ wire' = IF p = Receiver THEN Tail(wire) ELSE wire
        /\ wireBack' = IF p = Sender THEN Tail(wireBack) ELSE wireBack
        /\ UNCHANGED <<row, rowGen, inbox, used>>
        /\ UNCHANGED <<uploads, receivingRef, assemblies, decrypting, completed,
                       abortControllerRef>>

\* btoa(String.fromCharCode(...bytes)) and its inverse
\* new Uint8Array(atob(text).split('').map(c => c.charCodeAt(0)))
btoa(bytes) == <<"base64", bytes>>

atob(text) == text[2]

\* encryptMessage: AES-GCM under a fresh iv, both parts in base64
encryptMessage(key, text, iv) ==
    [data |-> btoa([key |-> key, iv |-> iv, plain |-> text]), iv |-> btoa(iv)]

\* the rejection of crypto.subtle.decrypt
DecryptFailed == "OperationError"

\* decryptMessage: rejects unless key and iv are those of the encryption
decryptMessage(key, data, iv) ==
    IF atob(data).key = key /\ atob(data).iv = atob(iv)
    THEN atob(data).plain
    ELSE DecryptFailed

\* sendMessage of the sender: the chat frame goes out on the open channel and
\* the text is added to the sender's own list
sendMessage(text) ==
    LET s == session[Sender]
        enc == encryptMessage(encryptionKeyRef(Sender), text,
                              <<"chat", used.chats>>)
    IN  /\ s.entered /\ ~s.unmounted
        /\ used.chats < MaxChats
        /\ used' = [used EXCEPT !.chats = @ + 1]
        /\ wire' = IF Open(Sender)
                   THEN Append(wire, [type |-> "chat", data |-> enc.data,
                                      iv |-> enc.iv])
                   ELSE wire
        /\ session' = [session EXCEPT ![Sender].messages =
                            IF Open(Sender) THEN Append(@, text) ELSE @]
        /\ UNCHANGED <<row, rowGen, inbox>>
        /\ UNCHANGED <<uploads, receivingRef, assemblies, decrypting, completed,
                       wireBack, abortControllerRef>>

\* the keys of sessions whose passphrase or room differs from the receiver's
ForeignKeys ==
    {deriveKey("letmein", roomId), deriveKey(passphraseOf(Receiver), "OTHER")}

\* the identifier of a file of a foreign session
ForeignFile == MaxUploads + 1

\* a frame encrypted by a session with a foreign key reaches the receiver's
\* channel: a chat frame, or a file chunk
Foreign(kind, key) ==
    LET chat == encryptMessage(key, "foreign", <<"chat", MaxChats>>)
        chunk == encryptBuffer(key, Slice(ForeignFile, CHUNK_SIZE, 0, CHUNK_SIZE),
                               <<ForeignFile, 0>>)
    IN  /\ DCOpen
        /\ kind \notin used.foreign
        /\ used' = [used EXCEPT !.foreign = @ \cup {kind}]
        /\ wire' = Append(wire,
                IF kind = "chat"
                THEN [type |-> "chat", data |-> chat.data, iv |-> chat.iv]
                ELSE [type |-> "binary", iv |-> chunk.iv, data |-> chunk.data])
        /\ UNCHANGED <<session, row, rowGen, inbox>>
        /\ UNCHANGED <<uploads, receivingRef, assemblies, decrypting, completed,
                       wireBack, abortControllerRef>>

\* dc.onmessage of the receiver for a chat frame: the text is added to the
\* list unless decryptMessage rejects, which the catch swallows
ReceiveChat ==
    LET e == Head(wire)
        text == decryptMessage(encryptionKeyRef(Receiver), e.data, e.iv)
    IN  /\ wire # <<>>
        /\ e.type = "chat"
        /\ Listening(Receiver)
        /\ wire' = Tail(wire)
        /\ session' = [session EXCEPT ![Receiver].messages =
                            IF text = DecryptFailed THEN @ ELSE Append(@, text)]
        /\ UNCHANGED <<row, rowGen, inbox, used>>
        /\ UNCHANGED <<uploads, receivingRef, assemblies, decrypting, completed,
                       wireBack, abortControllerRef>>

\* the while condition of sendNext and the branch taken after the loop
sendLoop(u, w) ==
    IF /\ u.off < u.size
       /\ Open(Sender)
       /\ bufferedAmount(w) < BUFFER_THRESHOLD
       /\ ~u.aborted
    THEN [u EXCEPT !.at = "encrypting"]
    ELSE IF u.aborted
    THEN [u EXCEPT !.at = "failed"]
    ELSE IF u.off < u.size /\ Open(Sender)
    THEN [u EXCEPT !.at = "paused"]
    ELSE IF Open(Sender)
    THEN [u EXCEPT !.at = "completed"]
    ELSE [u EXCEPT !.at = "failed"]

\* sendNext: with the token aborted it returns at once, and the entry of the
\* files list stays as it is
sendNext(u, w) ==
    IF u.aborted THEN [u EXCEPT !.at = "returned"] ELSE sendLoop(u, w)

\* abortControllerRef.current = null where a sendNext completes or throws; the
\* return after an aborted loop leaves the ref alone
released(u, ref) ==
    IF u.at = "completed" \/ (u.at = "failed" /\ ~u.aborted) THEN 0 ELSE ref

\* dc.onbufferedamountlow is one slot of the channel: the sendNext of upload k
\* that pauses takes it, and an upload that was waiting in it waits for nothing
register(ups, k) ==
    [j \in DOMAIN ups |->
        IF j # k /\ ups[k].at = "paused" /\ ups[j].at = "paused"
        THEN [ups[j] EXCEPT !.at = "overwritten"]
        ELSE ups[j]]

\* progress of the files entry of an upload: 0 at first, then
\* Math.min(100, Math.round((off / file.size) * 100)) after every chunk sent
progress(u) ==
    IF u.off = 0 THEN 0
    ELSE LET r == (200 * u.off + u.size) \div (2 * u.size)
         IN  IF r < 100 THEN r ELSE 100

\* handleFileUpload up to await file.arrayBuffer(): the file-meta frame is sent
handleFileUpload(size) ==
    LET id == Len(uploads) + 1
    IN  /\ Len(uploads) < MaxUploads
        /\ size <= MAX_FILE_SIZE
        /\ Open(Sender)
        /\ uploads' = Append(uploads,
                [id |-> id, size |-> size, off |-> 0, at |-> "reading",
                 aborted |-> FALSE])
        /\ wire' = Append(wire,
                [type |-> "file-meta", id |-> id, size |-> size])
        /\ abortControllerRef' = id
        /\ UNCHANGED <<receivingRef, assemblies, decrypting, completed,
                       wireBack>>
        /\ UNCHANGED signalVars

\* file.arrayBuffer() resolves: sendNext() is called
ReadDone(k) ==
    /\ k \in DOMAIN uploads
    /\ uploads[k].at = "reading"
    /\ uploads' = register([uploads EXCEPT
            ![k] = IF Open(Sender) THEN sendNext(@, wire)
                   ELSE [@ EXCEPT !.at = "failed"]], k)
    /\ abortControllerRef' =
            IF Open(Sender) THEN released(sendNext(uploads[k], wire),
                                          abortControllerRef)
            ELSE 0
    /\ UNCHANGED <<wire, receivingRef, assemblies, decrypting, completed,
                   wireBack>>
    /\ UNCHANGED signalVars

\* encryptBuffer resolves: the pack is sent, off advances, the loop goes on
EncryptDone(k) ==
    LET u == uploads[k]
        chunk == Slice(u.id, u.size, u.off, u.off + CHUNK_SIZE)
        iv == <<u.id, u.off>>
        enc == encryptBuffer(encryptionKeyRef(Sender), chunk, iv)
        pack == [type |-> "binary", iv |-> enc.iv, data |-> enc.data]
        w2 == Append(wire, pack)
        u2 == IF Open(Sender)
              THEN sendLoop([u EXCEPT !.off = @ + chunk.byteLength], w2)
              ELSE [u EXCEPT !.at = "failed"]
    IN  /\ k \in DOMAIN uploads
        /\ u.at = "encrypting"
        /\ wire' = IF Open(Sender) THEN w2 ELSE wire
        /\ uploads' = register([uploads EXCEPT ![k] = u2], k)
        /\ abortControllerRef' = released(u2, abortControllerRef)
        /\ UNCHANGED <<receivingRef, assemblies, decrypting, completed,
                       wireBack>>
        /\ UNCHANGED signalVars

\* the bufferedamountlow event of the channel, fired once bufferedAmount has
\* fallen to bufferedAmountLowThreshold = BUFFER_THRESHOLD / 2: the handler in
\* the slot clears the slot and calls sendNext of its upload k
BufferedAmountLow(k) ==
    LET u2 == sendNext(uploads[k], wire)
    IN  /\ k \in DOMAIN uploads
        /\ uploads[k].at = "paused"
        /\ bufferedAmount(wire) <= BUFFER_THRESHOLD \div 2
        /\ uploads' = register([uploads EXCEPT ![k] = u2], k)
        /\ abortControllerRef' = released(u2, abortControllerRef)
        /\ UNCHANGED <<wire, receivingRef, assemblies, decrypting, completed,
                       wireBack>>
        /\ UNCHANGED signalVars

\* dc.onmessage of the receiver for the next frame of the channel:
\* handleFileMetaReceive, or handleFileChunkReceive up to await decryptBuffer
Receive ==
    LET e == Head(wire)
    IN  /\ wire # <<>>
        /\ e.type \in {"file-meta", "binary"}
        /\ Listening(Receiver)
        /\ wire' = Tail(wire)
        /\ IF e.type = "file-meta"
           THEN /\ assemblies' = Append(assemblies,
                        [id |-> e.id, size |-> e.size,
                         chunks |-> <<>>, received |-> 0])
                /\ receivingRef' = Len(assemblies) + 1
                /\ UNCHANGED decrypting
           ELSE /\ decrypting' =
                        IF receivingRef = 0 THEN decrypting
                        ELSE decrypting \cup {[s |-> receivingRef, d |-> e]}
                /\ UNCHANGED <<assemblies, receivingRef>>
        /\ UNCHANGED <<uploads, completed, wireBack, abortControllerRef>>
        /\ UNCHANGED signalVars

\* decryptBuffer of one pending chunk resolves or rejects; the promises of
\* different chunks settle in any order
DecryptDone(c) ==
    LET dec == decryptBuffer(encryptionKeyRef(Receiver), c.d.data, c.d.iv)
        s == [assemblies[c.s] EXCEPT
                !.chunks = Append(@, dec),
                !.received = @ + dec.byteLength]
    IN  /\ c \in decrypting
        /\ decrypting' = decrypting \ {c}
        /\ IF dec = OperationError
           THEN /\ receivingRef' = 0
                /\ UNCHANGED <<assemblies, completed>>
           ELSE /\ assemblies' = [assemblies EXCEPT ![c.s] = s]
                /\ IF s.received >= s.size
                   THEN /\ completed' = Append(completed, s)
                        /\ receivingRef' = 0
                   ELSE UNCHANGED <<completed, receivingRef>>
        /\ UNCHANGED <<uploads, wire, wireBack, abortControllerRef>>
        /\ UNCHANGED signalVars

\* ---------------------------------------------------------- specifications
Init ==
    /\ session = [p \in Peers |-> InitSession]
    /\ row = NoRow
    /\ rowGen = 0
    /\ inbox = [p \in Peers |-> <<>>]
    /\ used = [visibility |-> 0, duplicates |-> 0, losses |-> 0, exits |-> 0,
               errors |-> {}, toggles |-> 0, chats |-> 0, foreign |-> {},
               rivals |-> 0]
    /\ uploads = <<>>
    /\ wire = <<>>
    /\ receivingRef = 0
    /\ assemblies = <<>>
    /\ decrypting = {}
    /\ completed = <<>>
    /\ wireBack = <<>>
    /\ abortControllerRef = 0

\* the steps of a run that every handshake takes
Handshake(p, i) ==
    \/ Subscribed(p, i)
    \/ SubscribeTimer(p, i)
    \/ FetchDone(p, i)
    \/ InsertDone(p, i)
    \/ GatherDone(p, i)
    \/ OfferAck(p, i)
    \/ ClaimAck(p, i)

\* the row holds the offer of its initiator
HasOffer == row.exists /\ row.offer.text = "b64"

\* two sessions entering the room in any order
Pair == {"A", "B"}

Next ==
    \/ \E p \in Pair : Enter(p)
    \/ \E p \in Pair, i \in 1..MaxRuns : Handshake(p, i)
    \/ \E p \in Pair, i \in 1..MaxRuns : RereadDone(p, i)
    \/ \E p \in Pair : Deliver(p)
    \/ \E p \in Pair : Heartbeat(p)
    \/ \E p \in Pair : ReconnectFire(p)
    \/ \E p \in Pair, n \in 0..MaxRetryCount : RetryFire(p, n)
    \/ \E p \in Pair, i \in 1..MaxRuns : TransportConnected(p, i)

Spec == Init /\ [][Next]_vars

\* A posts its offer, then B and C enter and race for the receiver slot
NextRace ==
    \/ Enter("A")
    \/ \E p \in {"B", "C"} : HasOffer /\ Enter(p)
    \/ \E p \in Peers, i \in 1..MaxRuns : Handshake(p, i)
    \/ \E p \in Peers, i \in 1..MaxRuns : RereadDone(p, i)
    \/ \E p \in Peers : Deliver(p)
    \/ \E p \in Peers : DeliverDuplicate(p)
    \/ \E p \in Peers : Heartbeat(p)
    \/ \E p \in Peers, i \in 1..MaxRuns : TransportConnected(p, i)

SpecRace == Init /\ [][NextRace]_vars

\* A enters the empty room, B enters once the row is there; nothing fails
NextHappy ==
    \/ Enter("A")
    \/ row.exists /\ Enter("B")
    \/ \E p \in Pair, i \in 1..MaxRuns : Handshake(p, i)
    \/ \E p \in Pair : Deliver(p)
    \/ \E p \in Pair : Heartbeat(p)
    \/ \E p \in Pair, i \in 1..MaxRuns : TransportConnected(p, i)

\* every timer fires, every RPC completes, every notification is delivered
FairHappy ==
    /\ WF_vars(Enter("A"))
    /\ WF_vars(row.exists /\ Enter("B"))
    /\ \A p \in Pair :
        /\ WF_vars(\E i \in 1..MaxRuns : Handshake(p, i))
        /\ WF_vars(Deliver(p))
        /\ WF_vars(Heartbeat(p))
        /\ WF_vars(\E i \in 1..MaxRuns : TransportConnected(p, i))

SpecHappy == Init /\ [][NextHappy]_vars /\ FairHappy

\* a connected pair loses its transport
NextLoss ==
    \/ Enter("A")
    \/ HasOffer /\ Enter("B")
    \/ \E p \in Pair, i \in 1..MaxRuns : Handshake(p, i)
    \/ \E p \in Pair : Deliver(p)
    \/ \E p \in Pair : Heartbeat(p)
    \/ \E p \in Pair : ReconnectFire(p)
    \/ \E p \in Pair, i \in 1..MaxRuns : TransportConnected(p, i)
    \/ \E p \in Pair, i \in 1..MaxRuns : TransportFailed(p, i)

SpecLoss == Init /\ [][NextLoss]_vars

\* a connected pair; the sender uploads files
NextFile ==
    \/ Enter("A")
    \/ HasOffer /\ Enter("B")
    \/ \E p \in Pair, i \in 1..MaxRuns : Handshake(p, i)
    \/ \E p \in Pair : Deliver(p)
    \/ \E p \in Pair, i \in 1..MaxRuns : TransportConnected(p, i)
    \/ \E size \in FileSizes : handleFileUpload(size)
    \/ \E k \in 1..MaxUploads : ReadDone(k)
    \/ \E k \in 1..MaxUploads : EncryptDone(k)
    \/ Receive
    \/ \E c \in decrypting : DecryptDone(c)

SpecFile == Init /\ [][NextFile]_vars

\* a connected pair loses its transport and both sides elect again while the
\* row, refreshed by no heartbeat, grows older
NextStale ==
    \/ Enter("A")
    \/ HasOffer /\ Enter("B")
    \/ \E p \in Pair, i \in 1..MaxRuns : Handshake(p, i)
    \/ \E p \in Pair, i \in 1..MaxRuns : DeleteDone(p, i)
    \/ \E p \in Pair : Deliver(p)
    \/ \E p \in Pair : Heartbeat(p)
    \/ \E p \in Pair : ReconnectFire(p)
    \/ \E p \in Pair, i \in 1..MaxRuns : TransportConnected(p, i)
    \/ \E p \in Pair, i \in 1..MaxRuns : TransportFailed(p, i)
    \/ Tick

SpecStale == Init /\ [][NextStale]_vars

\* a pair in which either side may press exit at any time
NextExit ==
    \/ Enter("A")
    \/ HasOffer /\ Enter("B")
    \/ \E p \in Pair, i \in 1..MaxRuns : Handshake(p, i)
    \/ \E p \in Pair : Deliver(p)
    \/ \E p \in Pair, i \in 1..MaxRuns : TransportConnected(p, i)
    \/ \E p \in Pair : ManualExit(p)
    \/ \E p \in Pair : ReceiveTerminate(p)
    \/ \E p \in Pair : ExitDelete(p)
    \/ \E p \in Pair : ExitDone(p)

SpecExit == Init /\ [][NextExit]_vars

\* a connected pair with one upload of the sender, in which either side may
\* press exit once the channel is open
NextAbort ==
    \/ Enter("A")
    \/ HasOffer /\ Enter("B")
    \/ \E p \in Pair, i \in 1..MaxRuns : Handshake(p, i)
    \/ \E p \in Pair : Deliver(p)
    \/ \E p \in Pair, i \in 1..MaxRuns : TransportConnected(p, i)
    \/ Len(uploads) = 0 /\ handleFileUpload(2 * CHUNK_SIZE + 1)
    \/ \E k \in 1..MaxUploads : ReadDone(k)
    \/ \E k \in 1..MaxUploads : EncryptDone(k)
    \/ Receive
    \/ \E p \in Pair : DCOpen /\ ManualExit(p)
    \/ \E p \in Pair : ReceiveTerminate(p)
    \/ \E p \in Pair : ExitDelete(p)
    \/ \E p \in Pair : ExitDone(p)

SpecAbort == Init /\ [][NextAbort]_vars

\* file.size of the files picked under backpressure: an empty file, one chunk,
\* and a file that fills the channel's buffer before its last byte
PressureSizes == {0, CHUNK_SIZE, BUFFER_THRESHOLD + 1}

\* a connected pair; the sender uploads, the large file first, while the
\* receiver takes the frames off the channel at its own pace
NextPressure ==
    \/ Enter("A")
    \/ HasOffer /\ Enter("B")
    \/ \E p \in Pair, i \in 1..MaxRuns : Handshake(p, i)
    \/ \E p \in Pair : Deliver(p)
    \/ \E p \in Pair, i \in 1..MaxRuns : TransportConnected(p, i)
    \/ \E size \in PressureSizes :
            /\ size > CHUNK_SIZE => Len(uploads) = 0
            /\ handleFileUpload(size)
    \/ \E k \in 1..MaxUploads : ReadDone(k)
    \/ \E k \in 1..MaxUploads : EncryptDone(k)
    \/ \E k \in 1..MaxUploads : BufferedAmountLow(k)
    \/ Receive

SpecPressure == Init /\ [][NextPressure]_vars

\* a pair whose requests to the store may fail or stay unanswered
NextRpc ==
    \/ Enter("A")
    \/ HasOffer /\ Enter("B")
    \/ \E p \in Pair, i \in 1..MaxRuns : Handshake(p, i)
    \/ \E p \in Pair, i \in 1..MaxRuns : RereadDone(p, i)
    \/ \E p \in Pair : Deliver(p)
    \/ \E p \in Pair, n \in 0..MaxRetryCount : RetryFire(p, n)
    \/ \E p \in Pair, i \in 1..MaxRuns : FetchError(p, i)
    \/ \E p \in Pair, i \in 1..MaxRuns : InsertError(p, i)
    \/ \E p \in Pair, i \in 1..MaxRuns : UpdateError(p, i)
    \/ \E p \in Pair, i \in 1..MaxRuns : NeverAnswered(p, i)

SpecRpc == Init /\ [][NextRpc]_vars

\* ------------------------------------------------------------ entry paths
\* the characters of room names: a letter in both cases and the space
Chars == {"a", "A", " "}

\* the room names a user can type or a link can carry
RoomNames == UNION {[1..n -> Chars] : n \in 1..MaxLen}

\* String.prototype.toUpperCase
toUpperCase(str) == [k \in DOMAIN str |-> IF str[k] = "a" THEN "A" ELSE str[k]]

\* String.prototype.trim
RECURSIVE trim(_)
trim(str) ==
    IF str = <<>> THEN str
    ELSE IF Head(str) = " " THEN trim(Tail(str))
    ELSE IF str[Len(str)] = " " THEN trim(SubSeq(str, 1, Len(str) - 1))
    ELSE str

\* Setup.handleSubmit -> onStart -> handleStartSession: setRoomConfig(config)
handleSubmit(p, roomName) ==
    /\ ~session[p].roomConfig.set
    /\ Local(p, [session[p] EXCEPT
                    !.roomName = roomName,
                    !.roomConfig = [set |-> TRUE,
                                    roomId |-> toUpperCase(trim(roomName))]])

\* App.checkMagicLink with the fragment #room=<room>&pass=<passphrase>
checkMagicLink(p, room) ==
    /\ ~session[p].roomConfig.set
    /\ Local(p, IF room # <<>>
                THEN [session[p] EXCEPT
                        !.roomName = room,
                        !.roomConfig = [set |-> TRUE, roomId |-> room]]
                ELSE session[p])

\* the room_id of the row session p reads and writes
room_id(p) == session[p].roomConfig.roomId

\* the salt of the key session p derives
saltOf(p) == deriveKey(passphraseOf(p), session[p].roomConfig.roomId)[3]

\* two users open a room, each through the form or through a link
NextEntry ==
    \/ \E p \in Pair, roomName \in RoomNames : handleSubmit(p, roomName)
    \/ \E p \in Pair, room \in RoomNames \cup {<<>>} : checkMagicLink(p, room)

SpecEntry == Init /\ [][NextEntry]_vars

\* a connected pair in which A changes its privacy settings; the transport
\* is lost afterwards, the row grows stale and both sides elect again
NextPrivacy ==
    \/ Enter("A")
    \/ HasOffer /\ Enter("B")
    \/ \E p \in Pair, i \in 1..MaxRuns : Handshake(p, i)
    \/ \E p \in Pair, i \in 1..MaxRuns : DeleteDone(p, i)
    \/ \E p \in Pair : Deliver(p)
    \/ \E p \in Pair : ReconnectFire(p)
    \/ \E p \in Pair : RetryFire(p, 0)
    \/ \E p \in Pair, i \in 1..MaxRuns : TransportConnected(p, i)
    \/ \E p \in Pair, i \in 1..MaxRuns :
            session["B"].lastPrivacy.present /\ TransportFailed(p, i)
    \/ \E m \in BOOLEAN, f \in {"NONE", "MOSAIC"} : SetPrivacy("A", m, f)
    \/ ReceivePrivacy("B")
    \/ Tick

SpecPrivacy == Init /\ [][NextPrivacy]_vars

\* a connected pair with one upload and one chat message of the sender, while
\* frames encrypted under foreign keys arrive on the receiver's channel
NextForeign ==
    \/ Enter("A")
    \/ HasOffer /\ Enter("B")
    \/ \E p \in Pair, i \in 1..MaxRuns : Handshake(p, i)
    \/ \E p \in Pair : Deliver(p)
    \/ \E p \in Pair, i \in 1..MaxRuns : TransportConnected(p, i)
    \/ Len(uploads) = 0 /\ handleFileUpload(CHUNK_SIZE + 1)
    \/ \E k \in 1..MaxUploads : ReadDone(k)
    \/ \E k \in 1..MaxUploads : EncryptDone(k)
    \/ DCOpen /\ sendMessage("hello")
    \/ \E kind \in {"chat", "binary"}, key \in ForeignKeys : Foreign(kind, key)
    \/ Receive
    \/ ReceiveChat
    \/ \E c \in decrypting : DecryptDone(c)

SpecForeign == Init /\ [][NextForeign]_vars

\* A opens the room; B finds the claimed row and leaves, which deletes the
\* row; C then opens the room again while A is still gathering
NextRewrite ==
    \/ Enter("A")
    \/ row.exists /\ Enter("B")
    \/ used.exits > 0 /\ ~row.exists /\ Enter("C")
    \/ \E p \in Peers, i \in 1..MaxRuns : Subscribed(p, i)
    \/ \E p \in Peers, i \in 1..MaxRuns : SubscribeTimer(p, i)
    \/ \E p \in Peers, i \in 1..MaxRuns : FetchDone(p, i)
    \/ \E p \in {"A", "C"}, i \in 1..MaxRuns : InsertDone(p, i)
    \/ \E p \in {"A", "C"}, i \in 1..MaxRuns : GatherDone(p, i)
    \/ \E p \in {"A", "C"}, i \in 1..MaxRuns : OfferAck(p, i)
    \/ \E p \in {"A", "C"} : Deliver(p)
    \/ session["B"].role = "receiver" /\ ManualExit("B")
    \/ ExitDelete("B")
    \/ ExitDone("B")

SpecRewrite == Init /\ [][NextRewrite]_vars

\* both sessions of a pair that lost its transport have stopped refreshing
\* the row
Abandoned ==
    \A q \in Pair : session[q].entered /\ session[q].display = "room-full"

\* a pair loses its transport and ends in room-full on its own fresh row; C
\* enters afterwards, while the row grows older
NextOld ==
    \/ Enter("A")
    \/ HasOffer /\ Enter("B")
    \/ \E p \in Pair, i \in 1..MaxRuns : Handshake(p, i)
    \/ \E p \in Pair : Deliver(p)
    \/ \E p \in Pair : ReconnectFire(p)
    \/ \E p \in Pair, i \in 1..MaxRuns : TransportConnected(p, i)
    \/ \E p \in Pair, i \in 1..MaxRuns : TransportFailed(p, i)
    \/ Abandoned /\ Tick
    \/ Abandoned /\ Enter("C")
    \/ \E i \in 1..MaxRuns : Subscribed("C", i)
    \/ \E i \in 1..MaxRuns : SubscribeTimer("C", i)
    \/ \E i \in 1..MaxRuns : FetchDone("C", i)
    \/ \E i \in 1..MaxRuns : DeleteDone("C", i)
    \/ RetryFire("C", 0)

SpecOld == Init /\ [][NextOld]_vars

\* a pair whose heartbeat writes may fail, before and after it is connected
NextBeat ==
    \/ Enter("A")
    \/ HasOffer /\ Enter("B")
    \/ \E p \in Pair, i \in 1..MaxRuns : Handshake(p, i)
    \/ \E p \in Pair : Deliver(p)
    \/ \E p \in Pair, i \in 1..MaxRuns : TransportConnected(p, i)
    \/ \E p \in Pair : Heartbeat(p)
    \/ \E p \in Pair : HeartbeatError(p)
    \/ \E p \in Pair : HeartbeatThrow(p)

SpecBeat == Init /\ [][NextBeat]_vars

\* both sessions show connected and the data channel is open on both sides
Connected ==
    DCOpen /\ \A q \in Pair : session[q].connectionStatus = "connected"

\* a connected pair in which A presses exit; afterwards the transport of B may
\* be lost and a reconnect timer of B may fire
NextTerminate ==
    \/ Enter("A")
    \/ HasOffer /\ Enter("B")
    \/ \E p \in Pair, i \in 1..MaxRuns : Handshake(p, i)
    \/ \E p \in Pair : Deliver(p)
    \/ \E p \in Pair, i \in 1..MaxRuns : TransportConnected(p, i)
    \/ Connected /\ ManualExit("A")
    \/ \E p \in Pair : ReceiveTerminate(p)
    \/ \E p \in Pair : ExitDelete(p)
    \/ \E p \in Pair : ExitDone(p)
    \/ \E i \in 1..MaxRuns : used.exits > 0 /\ TransportFailed("B", i)
    \/ ReconnectFire("B")

SpecTerminate == Init /\ [][NextTerminate]_vars

\* a third session enters the room of a connected pair, with any answer of the
\* browser to its initMedia; once it shows room-full, A presses exit
NextFull ==
    \/ Enter("A")
    \/ HasOffer /\ Enter("B")
    \/ \E env \in MediaEnv : Connected /\ InitMedia("C", env)
    \/ \E p \in Pair, i \in 1..MaxRuns : Handshake(p, i)
    \/ \E i \in 1..MaxRuns : Subscribed("C", i)
    \/ \E i \in 1..MaxRuns : SubscribeTimer("C", i)
    \/ \E i \in 1..MaxRuns : FetchDone("C", i)
    \/ \E p \in Peers : Deliver(p)
    \/ \E p \in Pair, i \in 1..MaxRuns : TransportConnected(p, i)
    \/ session["C"].display = "room-full" /\ ManualExit("A")
    \/ \E p \in Pair : ReceiveTerminate(p)
    \/ \E p \in Pair : ExitDelete(p)
    \/ \E p \in Pair : ExitDone(p)
    \/ ReconnectFire("C")

SpecFull == Init /\ [][NextFull]_vars

\* D, with another passphrase, enters the room A has opened; A may leave
NextMismatch ==
    \/ Enter("A")
    \/ row.exists /\ Enter("D")
    \/ \E p \in {"A", "D"}, i \in 1..MaxRuns : Handshake(p, i)
    \/ \E p \in {"A", "D"} : Deliver(p)
    \/ ExitTimerFire("D")
    \/ ManualExit("A")
    \/ ExitDelete("A")
    \/ ExitDone("A")
    \/ ReconnectFire("D")

SpecMismatch == Init /\ [][NextMismatch]_vars

\* two sessions enter one after the other, with any answer of the browser to
\* their initMedia
NextMedia ==
    \/ \E env \in MediaEnv : InitMedia("A", env)
    \/ \E env \in MediaEnv : HasOffer /\ InitMedia("B", env)
    \/ \E p \in Pair, i \in 1..MaxRuns : Handshake(p, i)
    \/ \E p \in Pair : Deliver(p)
    \/ \E p \in Pair, i \in 1..MaxRuns : TransportConnected(p, i)

SpecMedia == Init /\ [][NextMedia]_vars

\* ------------------------------------------------------ insert collisions
\* a session of another browser, of which only the writes to the row are
\* followed, claims the empty room: its insert of the CLAIMED row (the same
\* insert as in InsertDone)
RivalInsert(q) ==
    LET r2 == [NoRow EXCEPT
                  !.exists = TRUE,
                  !.initiator_id = q,
                  !.offer = CLAIMED,
                  !.passphrase_hash = hashPassphrase(passphraseOf(q))]
    IN  /\ ~session[q].entered
        /\ ~row.exists
        /\ used.rivals < MaxRivals
        /\ Step(q, session[q], r2, <<Event("INSERT", r2)>>)
        /\ rowGen' = rowGen + 1
        /\ used' = [used EXCEPT !.rivals = @ + 1]

\* that session leaves: the delete of its handleManualExit
RivalLeave(q) ==
    /\ ~session[q].entered
    /\ row.exists
    /\ row.initiator_id = q
    /\ Step(q, session[q], NoRow, <<Event("DELETE", NoRow)>>)
    /\ UNCHANGED <<rowGen, used>>

\* the run of p that awaits its insert read the room as empty
Inserting(p) ==
    \E i \in DOMAIN session[p].runs : session[p].runs[i].at = "inserting"

\* A elects while other sessions claim the room just before A's insert and
\* leave again
NextRetry ==
    \/ Enter("A")
    \/ \E i \in 1..MaxRuns : Subscribed("A", i)
    \/ \E i \in 1..MaxRuns : SubscribeTimer("A", i)
    \/ \E i \in 1..MaxRuns : FetchDone("A", i)
    \/ \E i \in 1..MaxRuns : InsertDone("A", i)
    \/ \E i \in 1..MaxRuns : GatherDone("A", i)
    \/ \E i \in 1..MaxRuns : OfferAck("A", i)
    \/ \E n \in 0..MaxRetryCount : RetryFire("A", n)
    \/ Deliver("A")
    \/ ReconnectFire("A")
    \/ Inserting("A") /\ RivalInsert("C")
    \/ RivalLeave("C")

SpecRetry == Init /\ [][NextRetry]_vars

\* a pair in which a tab that is not connected may become visible again
NextVisible ==
    \/ Enter("A")
    \/ HasOffer /\ Enter("B")
    \/ \E p \in Pair, i \in 1..MaxRuns : Handshake(p, i)
    \/ \E p \in Pair, i \in 1..MaxRuns : RereadDone(p, i)
    \/ \E p \in Pair : Deliver(p)
    \/ \E p \in Pair : VisibilityChange(p)
    \/ \E p \in Pair : ReconnectFire(p)

SpecVisible == Init /\ [][NextVisible]_vars

\* run i of p found another passphrase and waits for the timer of onExit
Mismatched(p) == session[p].exitTimeout

\* a third session finds the room of a connected pair full, or a session with
\* another passphrase finds A waiting; that session presses the exit button
NextLeave ==
    \/ Enter("A")
    \/ HasOffer /\ ~session["D"].entered /\ Enter("B")
    \/ Connected /\ Enter("C")
    \/ HasOffer /\ ~session["B"].entered /\ Enter("D")
    \/ \E p \in Pair, i \in 1..MaxRuns : Handshake(p, i)
    \/ \E p \in {"C", "D"}, i \in 1..MaxRuns : Subscribed(p, i)
    \/ \E p \in {"C", "D"}, i \in 1..MaxRuns : SubscribeTimer(p, i)
    \/ \E p \in {"C", "D"}, i \in 1..MaxRuns : FetchDone(p, i)
    \/ \E p \in Pair : Deliver(p)
    \/ \E p \in Pair, i \in 1..MaxRuns : TransportConnected(p, i)
    \/ session["C"].display = "room-full" /\ ManualExit("C")
    \/ Mismatched("D") /\ ManualExit("D")
    \/ \E p \in {"C", "D"} : ExitDelete(p)
    \/ \E p \in {"C", "D"} : ExitDone(p)

SpecLeave == Init /\ [][NextLeave]_vars

\* file.size of the one file picked: an empty file, or two chunks
DeliverSizes == {0, CHUNK_SIZE + 1}

\* a connected pair; the sender uploads one file, which the receiver takes
\* off the channel and decrypts
NextDeliver ==
    \/ Enter("A")
    \/ HasOffer /\ Enter("B")
    \/ \E p \in Pair, i \in 1..MaxRuns : Handshake(p, i)
    \/ \E p \in Pair : Deliver(p)
    \/ \E p \in Pair, i \in 1..MaxRuns : TransportConnected(p, i)
    \/ \E size \in DeliverSizes : Len(uploads) = 0 /\ handleFileUpload(size)
    \/ \E k \in 1..MaxUploads : ReadDone(k)
    \/ \E k \in 1..MaxUploads : EncryptDone(k)
    \/ Receive
    \/ \E c \in decrypting : DecryptDone(c)

SpecDeliver == Init /\ [][NextDeliver]_vars

\* a pair whose subscriptions may fail and whose tabs may become visible again
NextSubscribe ==
    \/ Enter("A")
    \/ HasOffer /\ Enter("B")
    \/ \E p \in Pair, i \in 1..MaxRuns : Handshake(p, i)
    \/ \E p \in Pair : Deliver(p)
    \/ \E p \in Pair : VisibilityChange(p)
    \/ \E p \in Pair : ReconnectFire(p)
    \/ \E p \in Pair, i \in 1..MaxRuns : SubscribeError(p, i)

SpecSubscribe == Init /\ [][NextSubscribe]_vars

\* ------------------------------------------------------------ properties
\* the coroutines of joinAndSignal itself that are suspended at an await
ElectionRuns(s) ==
    {i \in DOMAIN s.runs :
        /\ s.runs[i].kind = "join"
        /\ s.runs[i].at \in {"subscribing", "waiting", "fetched",
                             "inserting", "deleting"}}

\* the peer connections of a session that were not closed
Unclosed(s) == {i \in DOMAIN s.pcs : s.pcs[i].connectionState # "closed"}

\* the answerer peer connections of a session built from remote offer d
BuiltFrom(s, d) ==
    {i \in DOMAIN s.pcs : ~s.pcs[i].isOffer /\ s.pcs[i].remoteDescription = d}

\* the claims (conditional updates) completed on the current row, as <<p, i>>
Claims ==
    {c \in Peers \X (1..MaxRuns) :
        /\ c[2] \in DOMAIN session[c[1]].runs
        /\ session[c[1]].runs[c[2]].claim # "none"
        /\ session[c[1]].runs[c[2]].gen = rowGen}

ClaimOf(c) == session[c[1]].runs[c[2]]

\* C1: during the lifetime of a row, once receiver_id holds a peer id no write
\* changes it to a different value
C1_ReceiverSetOnce ==
    [][(/\ row.exists
        /\ row'.exists
        /\ rowGen' = rowGen
        /\ row.receiver_id # Null) => row'.receiver_id = row.receiver_id]_vars

\* C2: when the claims of two peers on the same offered row have both
\* completed, exactly one of them matched, and the peer whose claim did not
\* match ends in room-full
C2_OneClaimWins ==
    \A c, d \in Claims :
        c[1] # d[1] =>
            /\ (ClaimOf(c).claim = "matched") # (ClaimOf(d).claim = "matched")
            /\ (ClaimOf(c).claim = "unmatched" /\ ClaimOf(c).at = "done")
                   => ClaimOf(c).outcome = "room-full"

\* C3: a receiver constructs at most one peer connection from a given offer
C3_OfferAppliedOnce ==
    \A p \in Peers : \A i \in DOMAIN session[p].pcs :
        ~session[p].pcs[i].isOffer =>
            Cardinality(BuiltFrom(session[p],
                                  session[p].pcs[i].remoteDescription)) = 1

\* C4: an initiator's peer connection has its remote description set at most
\* once, and only from a notification whose initiator_id is the session's id
C4_AnswerAppliedOnce ==
    \A p \in Peers : \A i \in DOMAIN session[p].pcs :
        session[p].pcs[i].isOffer =>
            /\ session[p].pcs[i].applied <= 1
            /\ session[p].pcs[i].applied = 1 =>
                   /\ session[p].pcs[i].answerFrom = p
                   /\ session[p].pcs[i].remoteDescription.type = "answer"

\* C4 witness: the answer was applied, and a further notification carrying
\* the same answer is about to be delivered to the initiator
C4_Witness ==
    \E p \in Peers : \E i \in DOMAIN session[p].pcs :
        /\ session[p].pcs[i].isOffer
        /\ session[p].pcs[i].applied = 1
        /\ inbox[p] # <<>>
        /\ btoaJSON(session[p].pcs[i].remoteDescription) = Head(inbox[p]).answer

\* C5: a session never holds two peer connections that were not closed
C5_OneUnclosedPeer ==
    \A p \in Peers : Cardinality(Unclosed(session[p])) <= 1

\* C6: a session never has two role election coroutines suspended at once
C6_OneElectionRun ==
    \A p \in Peers : Cardinality(ElectionRuns(session[p])) <= 1

\* C7: a notification delivered while isSignalingRef is set constructs no peer
\* connection, starts no claim, runs no cleanup and schedules no reconnect
C7_CallbackObservesFlag ==
    [][\A p \in Peers :
        (Deliver(p) /\ session[p].isSignaling) =>
            /\ session'[p].isSignaling
            /\ session'[p].pcs = session[p].pcs
            /\ session'[p].runs = session[p].runs
            /\ session'[p].channels = session[p].channels
            /\ session'[p].reconnectTimeout = session[p].reconnectTimeout]_vars

\* the descriptions of the first peer connections of A and of B
OfferOfA == Description("offer", "A", 1)

AnswerOfB == Description("answer", "B", 1)

WasConnected(p) ==
    \E i \in DOMAIN session[p].pcs :
        session[p].pcs[i].connectionState \in {"connected", "failed"}

\* C9: once both sides were connected, an occupant of the row whose transport
\* failed is not left in room-full
C9_NoRoomFullAfterLoss ==
    \A p \in Pair :
        (/\ \E i \in DOMAIN session[p].pcs :
                session[p].pcs[i].connectionState = "failed"
         /\ \A q \in Pair : WasConnected(q)
         /\ row.exists
         /\ p \in {row.initiator_id, row.receiver_id})
            => session[p].connectionStatus # "room-full"

RECURSIVE Bytes(_)
\* the byte sequence of a list of slices: adjacent slices of one file that
\* continue each other are one slice
Bytes(chunks) ==
    IF Len(chunks) < 2 THEN chunks
    ELSE LET a == chunks[1]
             b == chunks[2]
             rest == SubSeq(chunks, 3, Len(chunks))
         IN  IF a.id = b.id /\ a.off + a.byteLength = b.off
             THEN Bytes(<<[a EXCEPT !.byteLength = @ + b.byteLength]>> \o rest)
             ELSE <<a>> \o Bytes(Tail(chunks))

\* C10: the bytes of every file completed at the receiver are the bytes of
\* the file announced by its file-meta
C10_ReceivedEqualsSent ==
    \A n \in DOMAIN completed :
        Bytes(completed[n].chunks)
            = <<Slice(completed[n].id, completed[n].size, 0,
                      completed[n].size)>>

\* the uploads of the sender that are still transferring
Transferring ==
    {k \in DOMAIN uploads :
        uploads[k].at \in {"reading", "encrypting", "paused"}}

\* C11: at most one outbound file transfer of a session is in progress
C11_OneOutboundTransfer == Cardinality(Transferring) <= 1

\* every handleManualExit of session p has returned: cleanupResources ran
CleanedUp(p) ==
    /\ session[p].unmounted
    /\ session[p].exitDeleting = 0
    /\ session[p].exitReturning = 0

\* C12: after cleanup has returned the session has no timer, no interval, no
\* pending reconnect, no subscription, no open peer connection and no upload
\* that goes on
C12_NothingLeftAfterCleanup ==
    \A p \in Pair :
        CleanedUp(p) =>
            /\ session[p].timeouts = {}
            /\ session[p].intervals = {}
            /\ ~session[p].reconnectTimeout
            /\ ~session[p].exitTimeout
            /\ session[p].channels = {}
            /\ \A i \in DOMAIN session[p].pcs : ~Alive(session[p].pcs[i])
            /\ p = Sender =>
                   \A k \in Transferring : uploads[k].aborted

\* C13: in every reachable state, cleanupResources run twice on a session
\* leaves the refs of the session and of its file transfer as one run does
C13_CleanupIdempotent ==
    \A p \in Pair :
        /\ cleanupResources(cleanupResources(session[p]))
               = cleanupResources(session[p])
        /\ resetFileRefs(p, resetFileRefs(p, fileRefs))
               = resetFileRefs(p, fileRefs)

\* a session on which cleanupResources has run twice in a row (exit, then
\* unmount) while the other one still has a peer connection, timers and an
\* upload for cleanupResources to work on
C13_Witness ==
    \E p, q \in Pair :
        /\ CleanedUp(p)
        /\ \E i \in DOMAIN session[p].pcs :
               session[p].pcs[i].connectionState = "closed"
        /\ cleanupResources(session[q]) # session[q]
        /\ resetFileRefs(Sender, fileRefs) # fileRefs

\* C14: in a connected pair in which only A presses exit, the session-terminate
\* frame is put on the channel while the channel of A is still open, and once
\* B, having received it, has run its cleanup and returned, no step sets the
\* reconnect timer of B or starts a joinAndSignal run of B
C14_TerminatePropagates ==
    [][
        /\ session'["A"].exitDeleting > session["A"].exitDeleting =>
            /\ Open("A")'
            /\ wire' = Append(wire, [type |-> "session-terminate"])
        /\ CleanedUp("B") =>
            /\ ~session'["B"].reconnectTimeout
            /\ Len(session'["B"].runs) = Len(session["B"].runs)
    ]_vars

\* the status shown is one of the three error screens
Terminal(p) ==
    session[p].display \in {"room-full", "security-error", "media-error"}

\* C15: a step taken while a session shows room-full, security-error or
\* media-error leaves the status shown as it is and starts no joinAndSignal run
C15_TerminalStatusStays ==
    [][\A p \in Peers :
            Terminal(p) =>
                /\ session'[p].display = session[p].display
                /\ Len(session'[p].runs) = Len(session[p].runs)]_vars

\* the run i of session p holds the row it read, fully occupied, with p as one
\* of its occupants
ReadOwnFullRow(p, i) ==
    /\ i \in DOMAIN session[p].runs
    /\ session[p].runs[i].at = "fetched"
    /\ session[p].runs[i].roomData.exists
    /\ session[p].runs[i].roomData.initiator_id # Null
    /\ session[p].runs[i].roomData.receiver_id # Null
    /\ p \in {session[p].runs[i].roomData.initiator_id,
              session[p].runs[i].roomData.receiver_id}

\* C16: the step a run takes on a fully occupied row of which its session is
\* an occupant goes on to delete the row exactly if the row is 8000 ms stale
\* or more
C16_ReclaimAtEightSeconds ==
    [][\A p \in Pair, i \in 1..MaxRuns :
            (ReadOwnFullRow(p, i) /\ session'[p].runs[i].at # "fetched") =>
                (session'[p].runs[i].at = "deleting"
                    <=> session[p].runs[i].roomData.age >= SESSION_EXPIRY)]_vars

\* no coroutine of session p is suspended at an await that will resume
Quiescent(p) ==
    \A i \in DOMAIN session[p].runs : session[p].runs[i].at \in {"done", "hung"}

\* C17: a mounted session that holds a slot of the row, shows no error screen
\* and has no role election in progress has a live heartbeat interval
C17_OccupantRefreshes ==
    \A p \in Pair :
        (/\ row.exists
         /\ p \in {row.initiator_id, row.receiver_id}
         /\ ~Terminal(p)
         /\ ~session[p].unmounted
         /\ Quiescent(p))
            => session[p].intervals # {}

\* the run i of session p holds the row it read, with an initiator only, whose
\* passphrase_hash is not the hash of p's passphrase
FoundMismatch(p, i) ==
    /\ i \in DOMAIN session[p].runs
    /\ session[p].runs[i].at = "fetched"
    /\ session[p].runs[i].roomData.exists
    /\ session[p].runs[i].roomData.initiator_id # Null
    /\ session[p].runs[i].roomData.receiver_id = Null
    /\ session[p].runs[i].roomData.passphrase_hash
           # hashPassphrase(passphraseOf(p))

\* the exit of session p is pending or has happened
Exiting(p) == session[p].exitTimeout \/ session[p].unmounted

\* C18: the step a run of D takes on a row with only an initiator and another
\* passphrase hash sets the exit timer; from then on the exit stays pending
\* until it happens, the session never has the receiver role, never gets a
\* peer connection and never appears in the row
C18_MismatchExits ==
    [][\A p \in {"D"} :
            /\ \A i \in 1..MaxRuns :
                   (FoundMismatch(p, i) /\ session'[p].runs[i].at # "fetched")
                       => session'[p].exitTimeout
            /\ Exiting(p) =>
                   /\ Exiting(p)'
                   /\ session'[p].role # "receiver"
                   /\ session'[p].pcs = <<>>
                   /\ p \notin {row'.initiator_id, row'.receiver_id}]_vars

\* C19: a session whose getUserMedia was rejected as busy or timed out and
\* whose audio-only fallback gave no stream either shows media-error and has
\* started no joinAndSignal run
C19_FallbackFailureIsMediaError ==
    \A p \in Pair :
        (/\ session[p].entered
         /\ session[p].mediaError \in Busy
         /\ session[p].rawStream = "none")
            => /\ session[p].display = "media-error"
               /\ session[p].runs = <<>>

\* the upload k, its token aborted, is at an await of handleFileUpload
AbortedInFlight(k) ==
    /\ k \in DOMAIN uploads
    /\ uploads[k].aborted
    /\ uploads[k].at \in {"reading", "encrypting"}

\* C20: the step in which an upload whose token is aborted resumes puts a
\* file-abort frame with its id on the channel, and nothing else, and marks
\* the upload failed
C20_AbortEmitsFileAbort ==
    [][\A k \in 1..MaxUploads :
            (AbortedInFlight(k) /\ uploads'[k].at # uploads[k].at) =>
                /\ uploads'[k].at = "failed"
                /\ wire' = Append(wire, [type |-> "file-abort", id |-> k])]_vars

\* the step puts a chunk on the channel
ChunkSent ==
    /\ Len(wire') = Len(wire) + 1
    /\ wire'[Len(wire')].type = "binary"

\* every upload that waits for the channel to drain has its sendNext in the
\* low-water slot, and every upload shown completed shows progress 100
WaitingAndDone ==
    \A k \in DOMAIN uploads :
        /\ uploads[k].at # "overwritten"
        /\ uploads[k].at = "completed" => progress(uploads[k]) = 100

\* C21: a chunk is sent only with bufferedAmount below BUFFER_THRESHOLD; an
\* upload that pauses keeps its low-water callback and resumes at the offset
\* it paused at; progress never decreases and is 100 at completion
C21_Backpressure ==
    [][/\ ChunkSent => bufferedAmount(wire) < BUFFER_THRESHOLD
       /\ WaitingAndDone'
       /\ \A k \in DOMAIN uploads :
            /\ progress(uploads'[k]) >= progress(uploads[k])
            /\ uploads[k].at = "paused" => uploads'[k].off = uploads[k].off
      ]_vars

\* a reconnect or a retry of joinAndSignal is scheduled in session s
Rescheduled(s) == s.reconnectTimeout \/ s.timeouts # {}

\* run i of p ends in this step, or is given up as unanswered
Ends(p, i) ==
    /\ session[p].runs[i].at \notin {"done", "lost"}
    /\ session'[p].runs[i].at \in {"done", "lost"}

\* C22: a session whose handshake request to the store (row read, insert,
\* offer write, receiver claim) failed or stayed unanswered has a reconnect
\* scheduled when the run that issued the request ends
C22_FailedRequestReconnects ==
    [][\A e \in used'.errors :
            Ends(e[1], e[2]) => Rescheduled(session'[e[1]])
      ]_vars

\* both sessions have a configuration, from room names equal up to letter case
SameRoomUpToCase(p, q) ==
    /\ session[p].roomConfig.set
    /\ session[q].roomConfig.set
    /\ toUpperCase(session[p].roomName) = toUpperCase(session[q].roomName)

\* C23: the room id of every configuration is in upper case whichever way the
\* room was entered, and two sessions whose room names differ only in letter
\* case use the same row and the same key salt
C23_RoomIdUppercase ==
    \A p, q \in Pair :
        /\ room_id(p) = toUpperCase(room_id(p))
        /\ SameRoomUpToCase(p, q) =>
                room_id(p) = room_id(q) /\ saltOf(p) = saltOf(q)

\* the flags of the remote participant of session s
Flags(s) == <<s.remote.audioEnabled, s.remote.videoEnabled>>

\* this step is the reception of a privacy-update by session p
IsReceivePrivacy(p) ==
    LET w == IF p = Receiver THEN wire ELSE wireBack
    IN  /\ w # <<>>
        /\ Head(w).type = "privacy-update"
        /\ (IF p = Receiver THEN wire' ELSE wireBack') = Tail(w)

\* C24: the flags of a listed remote participant change only in the step
\* that receives a privacy-update, and once one was received they are the
\* flags of the last one received
C24_FlagsFollowPrivacyUpdate ==
    [][\A p \in Pair :
        /\ (session[p].remote.present /\ Flags(session'[p]) # Flags(session[p]))
                => IsReceivePrivacy(p)
        /\ (session'[p].remote.present /\ session'[p].lastPrivacy.present)
                => session'[p].remote = session'[p].lastPrivacy
      ]_vars

\* no text and no bytes of a foreign session are in the receiver's message
\* list, in an inbound assembly or in a completed file
NothingForeign(msgs, asm, done) ==
    /\ \A k \in DOMAIN msgs : msgs[k] # "foreign"
    /\ \A k \in DOMAIN asm : \A j \in DOMAIN asm[k].chunks :
            asm[k].chunks[j].id # ForeignFile
    /\ \A k \in DOMAIN done : \A j \in DOMAIN done[k].chunks :
            done[k].chunks[j].id # ForeignFile

\* the frame at the head of the receiver's channel is a chat frame encrypted
\* under another key than the receiver's
ForeignChatNext ==
    /\ wire # <<>>
    /\ Head(wire).type = "chat"
    /\ atob(Head(wire).data).key # encryptionKeyRef(Receiver)

\* C25: a chat frame or a file chunk encrypted under the key of another
\* (passphrase, room) is dropped by the receiver: the step that takes it
\* leaves the message list, the assemblies and the completed files as they
\* are, and none of them ever holds foreign text or bytes
C25_ForeignFramesDropped ==
    [][/\ NothingForeign(session'[Receiver].messages, assemblies', completed')
       /\ (ForeignChatNext /\ wire' = Tail(wire)) =>
                session'[Receiver].messages = session[Receiver].messages
       /\ \A c \in decrypting \ decrypting' :
                c.d.data.key # encryptionKeyRef(Receiver) =>
                    UNCHANGED <<assemblies, completed>>
      ]_vars

\* both kinds of foreign frame were taken and dropped: an inbound transfer was
\* given up on the foreign chunk, and only the sender's own text is listed
C25_Witness ==
    /\ used.foreign = {"chat", "binary"}
    /\ wire = <<>>
    /\ decrypting = {}
    /\ receivingRef = 0
    /\ session[Receiver].messages = <<"hello">>
    /\ \E k \in DOMAIN assemblies : assemblies[k].received < assemblies[k].size

\* this step updates the row: the row is there before and after, and it is
\* the same insertion
RowUpdated == row.exists /\ row'.exists /\ rowGen' = rowGen /\ row' # row

\* C26: an update of the row is predicated on the columns the writer has
\* observed: the offer is written only by the session the row names as its
\* initiator, the initiator id is never written over, and the receiver id is
\* written only while it is null or by the receiver itself
C26_UpdatesAreConditional ==
    [][RowUpdated =>
        /\ row'.offer # row.offer =>
                JSONatob(row'.offer).owner = row.initiator_id
        /\ row'.initiator_id = row.initiator_id
        /\ row'.receiver_id # row.receiver_id => row.receiver_id = Null
      ]_vars

\* run i of p has read a fully occupied row that names two other sessions
ReadOthersFullRow(p, i) ==
    /\ i \in DOMAIN session[p].runs
    /\ session[p].runs[i].at = "fetched"
    /\ session[p].runs[i].roomData.exists
    /\ session[p].runs[i].roomData.initiator_id \notin {Null, p}
    /\ session[p].runs[i].roomData.receiver_id \notin {Null, p}

\* C27: the step a run takes on a fully occupied row of two other sessions
\* goes on to delete the row only if the row is more than 12000 ms old, and
\* the delete is followed by a restart; otherwise the session shows room-full,
\* the run ends and the row is left as it is
C27_OthersRowExpiresAtTwelveSeconds ==
    [][\A i \in 1..MaxRuns :
        /\ (ReadOthersFullRow("C", i) /\ session'["C"].runs[i].at # "fetched") =>
                IF session["C"].runs[i].roomData.age > ROOM_FULL_EXPIRY
                THEN session'["C"].runs[i].at = "deleting" /\ row' = row
                ELSE /\ session'["C"].runs[i].at = "done"
                     /\ session'["C"].connectionStatus = "room-full"
                     /\ row' = row
        /\ (i \in DOMAIN session["C"].runs
                /\ session["C"].runs[i].at = "deleting"
                /\ session'["C"].runs[i].at # "deleting") =>
                    ~row'.exists /\ 0 \in session'["C"].timeouts
      ]_vars

\* C has read the row of A and B at 12000 ms and shows room-full, the row
\* being still there
C27_Witness ==
    /\ session["C"].display = "room-full"
    /\ row.exists
    /\ row.age = ROOM_FULL_EXPIRY
    /\ row.initiator_id = "A"
    /\ row.receiver_id = "B"

\* run i of p, a sendAnswer, ends in this step
AnswerEnds(p, i) ==
    /\ i \in DOMAIN session[p].runs
    /\ session[p].runs[i].at \in {"claimed", "rereading"}
    /\ session'[p].runs[i].at = "done"

\* the answer sendAnswer of run i of p has built from its local description
AnswerOf(p, i) ==
    btoaJSON(session[p].pcs[session[p].runs[i].pc].localDescription)

\* C28: a sendAnswer whose claim was unmatched ends in ready if the row it
\* reads again names its session as receiver and in room-full otherwise; and
\* whenever a sendAnswer ends in ready, the row names its session as receiver
\* and holds the answer it has built
C28_ReadyReceiverOwnsRow ==
    [][\A p \in Peers, i \in 1..MaxRuns :
        AnswerEnds(p, i) =>
            /\ session[p].runs[i].at = "rereading" =>
                    session'[p].runs[i].outcome =
                        IF row.exists /\ row.receiver_id = p
                        THEN "ready" ELSE "room-full"
            /\ session'[p].runs[i].outcome = "ready" =>
                    /\ row.exists
                    /\ row.receiver_id = p
                    /\ row.answer = AnswerOf(p, i)
      ]_vars

\* C29: no step is a heartbeat write of a session that shows a terminal
\* status, room-full after a lost receiver claim in particular
C29_NoHeartbeatWhenTerminal ==
    [][\A p \in Peers : Terminal(p) => ~Heartbeat(p)]_vars

\* the last three entries of f are failures seen while connected
ThreeWhileConnected(f) ==
    /\ Len(f) >= 3
    /\ \A k \in (Len(f) - 2)..Len(f) : f[k] = "connected"

\* this step is a heartbeat tick of p whose write failed
BeatFails(p) == HeartbeatError(p) \/ HeartbeatThrow(p)

\* this step takes the reconnect branch of the heartbeat of p: the count is
\* reset and joinAndSignal is called
BeatReconnects(p) == session'[p].heartbeatFailures = <<>>

\* C30: a failed heartbeat write starts a reconnect exactly if it is the
\* third in a row that failed while the status was connected; a successful
\* write resets the count
C30_ReconnectAtThreeFailures ==
    [][\A p \in Pair :
        /\ BeatFails(p) =>
                (BeatReconnects(p) <=>
                    ThreeWhileConnected(Append(session[p].heartbeatFailures,
                                               session[p].connectionStatus)))
        /\ Heartbeat(p) => session'[p].heartbeatFailures = <<>>
      ]_vars

\* the insert of run i of p answers with a collision in this step
Collides(p, i) ==
    /\ i \in DOMAIN session[p].runs
    /\ session[p].runs[i].at = "inserting"
    /\ row.exists
    /\ InsertDone(p, i)

\* C31: an insert collision restarts role election with the next retry count,
\* and after three attempts (retry counts 0, 1, 2) no retry timer is left
\* whose call of joinAndSignal starts a further attempt
C31_ThreeAttempts ==
    [][\A p \in Peers :
        /\ \A i \in 1..MaxRuns :
              Collides(p, i) =>
                  (session[p].runs[i].retryCount + 1) \in session'[p].timeouts
        /\ \A n \in session'[p].timeouts :
              (n >= 3 /\ ~session'[p].isSignaling) =>
                  joinAndSignal(session'[p], n).runs = session'[p].runs
      ]_vars

\* C32: the row never names one peer as its initiator and as its receiver
C32_TwoDifferentPeers ==
    (row.exists /\ row.initiator_id # Null) => row.receiver_id # row.initiator_id

\* C33: a heartbeat write leaves initiator_id and receiver_id of the row as
\* they were
C33_HeartbeatKeepsIds ==
    [][\A p \in Peers :
        Heartbeat(p) =>
            /\ row'.initiator_id = row.initiator_id
            /\ row'.receiver_id = row.receiver_id
      ]_vars

\* C34: a session whose status is connected has a current peer connection
\* whose transport is connected
C34_ConnectedMeansTransportUp ==
    \A p \in Peers :
        session[p].connectionStatus = "connected" =>
            /\ session[p].peersRef # 0
            /\ session[p].pcs[session[p].peersRef].connectionState = "connected"

\* session p deletes the row in this step
Deletes(p) ==
    /\ row.exists
    /\ ExitDelete(p) \/ \E i \in 1..MaxRuns : DeleteDone(p, i)

\* C35: a session that the row names neither as initiator nor as receiver
\* deletes it only when both slots are taken and the row is older than
\* ROOM_FULL_EXPIRY
C35_OutsiderDeletesOnlyStaleRow ==
    [][\A p \in Peers :
        (Deletes(p) /\ row.initiator_id # p /\ row.receiver_id # p) =>
            /\ row.initiator_id # Null
            /\ row.receiver_id # Null
            /\ row.age > ROOM_FULL_EXPIRY
      ]_vars

\* C36: the chunk handler of one file, when it finishes, leaves the assembly
\* state of another file in receivingRef
C36_LaterFileKept ==
    [][\A c \in decrypting :
        (DecryptDone(c) /\ receivingRef # 0 /\ receivingRef # c.s) =>
            receivingRef' = receivingRef
      ]_vars

\* C37: in every assembly the chunks of one file stand in the order in which
\* their frames were sent and arrived, which is the order of their offsets
C37_ChunksInArrivalOrder ==
    \A k \in DOMAIN assemblies :
        \A i, j \in DOMAIN assemblies[k].chunks :
            (i < j /\ assemblies[k].chunks[i].id = assemblies[k].chunks[j].id)
                => assemblies[k].chunks[i].off < assemblies[k].chunks[j].off

\* the receiver shows the file of upload k as completed
CompletedAtReceiver(k) ==
    \E i \in DOMAIN completed : completed[i].id = uploads[k].id

\* every frame sent was received and every pending decryption has settled
Drained == wire = <<>> /\ decrypting = {}

\* C38: once the sender has marked an upload completed on a channel that is
\* open, and every frame of it was taken and decrypted by the receiver, the
\* receiver has marked the file completed
C38_CompletedAtReceiver ==
    \A k \in DOMAIN uploads :
        (uploads[k].at = "completed" /\ DCOpen /\ Drained) =>
            CompletedAtReceiver(k)

\* run i of session s has returned or will never resume
Over(s, i) == s.runs[i].at \in {"done", "hung", "lost"}

\* C39: while isSignalingRef is set, a run of the session is still on its way
\* to the statement that clears it
C39_FlagIsCleared ==
    \A p \in Peers :
        session[p].isSignaling =>
            \E i \in DOMAIN session[p].runs : ~Over(session[p], i)

\* channel c of session s is the one in signalChannelRef, or the run that
\* created it is waiting to store it there
Referenced(s, c) == c = s.signalChannel \/ s.runs[c].at = "waiting"

\* C40: a session has at most one subscribed channel, and every subscribed
\* channel is referenced by the session
C40_OneReferencedSubscription ==
    \A p \in Peers :
        /\ Cardinality(session[p].channels) <= 1
        /\ \A c \in session[p].channels : Referenced(session[p], c)
====
